---- MODULE Spec2Model ----
(***************************************************************************)
(* State-machine model of the Jupiter aggregator client                    *)
(* (src/src/jupiter_client.rs): the client constructors, the get_quote and *)
(* get_swap_transaction endpoint operations and the execute_swap saga.     *)
(*                                                                         *)
(* Representation choices                                                  *)
(*   - Option<T> is a record [some |-> BOOLEAN, val |-> T].                *)
(*   - Strings that the code parses as numbers (in_amount, out_amount,     *)
(*     price_impact_pct) are sequences of one-character strings, so that   *)
(*     str::parse and to_string are computed, not assumed.                 *)
(*   - A u64 value is its canonical decimal numeral (a digit sequence      *)
(*     without leading zeros), which keeps the full 64-bit range.          *)
(*   - The f64 slippage percentage of a SwapRequest is an integer number   *)
(*     of thousandths of a percent (0.256 % is 256).                       *)
(***************************************************************************)
EXTENDS Integers, Sequences, FiniteSets, TLC

VARIABLES
    client,     \* the JupiterClient handle, or NoClient
    ctor,       \* the constructor call that was made and how it ended
    pc,         \* per task: position inside execute_swap
    intent,     \* per task: the SwapRequest passed to execute_swap
    reqs,       \* per task: HTTP requests issued by the current execution
    resps,      \* per task: HTTP responses received by the current execution
    quote,      \* per task: the local `quote` of execute_swap
    result,     \* per task: the last value execute_swap returned
    runs,       \* per task: number of execute_swap calls started
    opcall,     \* per task: the endpoint operation the task has called
    cli         \* the process started from the command line (main)

vars ==
    <<client, ctor, pc, intent, reqs, resps, quote, result, runs, opcall, cli>>

sagaVars == <<pc, intent, reqs, resps, quote, result, runs>>

----------------------------------------------------------------------------
(* Bounds *)

NumTasks == 2

MaxRuns == 2

----------------------------------------------------------------------------
(* Option<T> *)

None == [some |-> FALSE]

Some(v) == [some |-> TRUE, val |-> v]

----------------------------------------------------------------------------
(* Constructors: JupiterClient::new_with_config and its shortcuts *)

JupiterApiType == {"Public", "Pro", "Lite", "SelfHosted", "Ultra"}

NoClient == [constructed |-> FALSE]

\* Strings of the input sets that are not valid HTTP header values (they hold
\* a control character), with the formatted bearer value of such a key.
InvalidHeaderValues ==
    {"sk\nlive", "Bearer sk\nlive", "acct\n1", "grpc\nhost", "tok\n1"}

\* str::parse::<HeaderValue>() succeeds
HeaderValueParses(s) == s \notin InvalidHeaderValues

\* HeaderMap::insert: at most one value per header name
HeaderInsert(h, name, value) ==
    {p \in h : p[1] # name} \cup {<<name, value>>}

BearerValue(key) == "Bearer " \o key

\* (variant: the bearer header is forgotten)
AuthHeadersNever(h, api_key) == h

AuthHeaders(h, api_key) ==
    IF api_key.some
    THEN HeaderInsert(h, "Authorization", BearerValue(api_key.val))
    ELSE h

\* (variant: every tier is tagged "public")
ApiTypeHeaderPublicOnly(api_type) == "public"

ApiTypeHeader(api_type) ==
    CASE api_type = "Pro" -> "pro"
      [] api_type = "Lite" -> "lite"
      [] api_type = "SelfHosted" -> "self-hosted"
      [] api_type = "Ultra" -> "ultra"
      [] api_type = "Public" -> "public"

IntegratorFeeHeaders(h, integrator_fee) ==
    IF integrator_fee.some
    THEN HeaderInsert(
            HeaderInsert(h, "X-Integrator-Fee",
                         ToString(integrator_fee.val.fee_bps)),
            "X-Integrator-Account", integrator_fee.val.fee_account)
    ELSE h

YellowstoneHeaders(h, yellowstone_config) ==
    IF yellowstone_config.some
    THEN HeaderInsert(
            HeaderInsert(h, "X-Yellowstone-Endpoint",
                         yellowstone_config.val.grpc_endpoint),
            "X-Yellowstone-Token", yellowstone_config.val.x_token)
    ELSE h

FixedHeaders(h) ==
    HeaderInsert(
        HeaderInsert(h, "Content-Type", "application/json"),
        "User-Agent", "Jupiter-Arbitrage-Bot/1.0")

\* every `.parse().unwrap()` of new_with_config succeeds
HeaderValuesParse(api_key, integrator_fee, yellowstone_config) ==
    /\ api_key.some => HeaderValueParses(BearerValue(api_key.val))
    /\ integrator_fee.some =>
          HeaderValueParses(integrator_fee.val.fee_account)
    /\ yellowstone_config.some =>
          /\ HeaderValueParses(yellowstone_config.val.grpc_endpoint)
          /\ HeaderValueParses(yellowstone_config.val.x_token)

\* The value of new_with_config: a client, or a panic (the function returns
\* Self, so an unwrap()/expect() failure unwinds instead of returning).
\* build_ok: Client::builder().build() succeeded.
new_with_config(base_url, api_key, api_type, integrator_fee, yellowstone_config, build_ok) ==
    IF ~HeaderValuesParse(api_key, integrator_fee, yellowstone_config)
    THEN [outcome |-> "panic", at |-> "unwrap"]
    ELSE IF ~build_ok
    THEN [outcome |-> "panic", at |-> "expect"]
    ELSE [outcome |-> "ok",
          client |->
            [constructed |-> TRUE,
             headers |->
                FixedHeaders(
                  YellowstoneHeaders(
                    IntegratorFeeHeaders(
                      HeaderInsert(AuthHeaders({}, api_key),
                                   "X-API-Type", ApiTypeHeader(api_type)),
                      integrator_fee),
                    yellowstone_config)),
             timeout_secs |-> 30,
             base_url |-> base_url,
             api_key |-> api_key,
             api_type |-> api_type,
             integrator_fee |-> integrator_fee,
             yellowstone_config |-> yellowstone_config]]

\* (variant: a client with a credential is built as tier Pro)
new_pro_when_keyed(base_url, api_key, build_ok) ==
    new_with_config(base_url, api_key,
                    IF api_key.some THEN "Pro" ELSE "Public", None, None,
                    build_ok)

new(base_url, api_key, build_ok) ==
    new_with_config(base_url, api_key, "Public", None, None, build_ok)

new_public(build_ok) ==
    new("https://quote-api.jup.ag/v6", None, build_ok)

\* (variant: the credential is not passed on)
new_pro_no_key(api_key, build_ok) ==
    new_with_config("https://api.jup.ag/v6", None, "Pro", None, None,
                    build_ok)

new_pro(api_key, build_ok) ==
    new_with_config("https://api.jup.ag/v6", Some(api_key), "Pro", None, None,
                    build_ok)

new_lite(build_ok) ==
    new_with_config("https://lite-api.jup.ag/v6", None, "Lite", None, None,
                    build_ok)

new_ultra(api_key, build_ok) ==
    new_with_config("https://ultra-api.jup.ag/v6", Some(api_key), "Ultra",
                    None, None, build_ok)

new_self_hosted(base_url, yellowstone_config, integrator_fee, build_ok) ==
    new_with_config(base_url, None, "SelfHosted", integrator_fee,
                    Some(yellowstone_config), build_ok)

\* Inputs of the constructors
BaseUrls == {"https://quote-api.jup.ag/v6", "http://localhost:8080"}

ApiKeyStrings == {"key-1", "sk\nlive"}

ApiKeys == {None} \cup {Some(k) : k \in ApiKeyStrings}

IntegratorFeeValues ==
    {[fee_bps |-> 25, fee_account |-> "FeeAcct1"],
     [fee_bps |-> 65535, fee_account |-> "acct\n1"]}

IntegratorFees == {None} \cup {Some(f) : f \in IntegratorFeeValues}

YellowstoneValues ==
    {[grpc_endpoint |-> "grpc.host:10000", x_token |-> "tok-1"],
     [grpc_endpoint |-> "grpc\nhost", x_token |-> "tok-1"],
     [grpc_endpoint |-> "grpc.host:10000", x_token |-> "tok\n1"]}

YellowstoneConfigs == {None} \cup {Some(y) : y \in YellowstoneValues}

NoCtor == [fn |-> "none"]

\* the effect of a constructor call whose value is r
Constructed(call, r) ==
    /\ ctor = NoCtor
    /\ ctor' = [call EXCEPT !.outcome = r.outcome]
    /\ client' = IF r.outcome = "ok" THEN r.client ELSE NoClient
    /\ UNCHANGED <<sagaVars, opcall, cli>>

CallNewWithConfig ==
    \E u \in BaseUrls, k \in ApiKeys, t \in JupiterApiType,
       f \in IntegratorFees, y \in YellowstoneConfigs, b \in BOOLEAN :
        Constructed([fn |-> "new_with_config", base_url |-> u, api_key |-> k,
                     api_type |-> t, integrator_fee |-> f,
                     yellowstone_config |-> y, outcome |-> "?"],
                    new_with_config(u, k, t, f, y, b))

CallNew ==
    \E u \in BaseUrls, k \in ApiKeys, b \in BOOLEAN :
        Constructed([fn |-> "new", base_url |-> u, api_key |-> k,
                     outcome |-> "?"],
                    new(u, k, b))

CallNewPublic ==
    \E b \in BOOLEAN :
        Constructed([fn |-> "new_public", outcome |-> "?"], new_public(b))

CallNewPro ==
    \E k \in ApiKeyStrings, b \in BOOLEAN :
        Constructed([fn |-> "new_pro", api_key |-> k, outcome |-> "?"],
                    new_pro(k, b))

CallNewLite ==
    \E b \in BOOLEAN :
        Constructed([fn |-> "new_lite", outcome |-> "?"], new_lite(b))

CallNewUltra ==
    \E k \in ApiKeyStrings, b \in BOOLEAN :
        Constructed([fn |-> "new_ultra", api_key |-> k, outcome |-> "?"],
                    new_ultra(k, b))

CallNewSelfHosted ==
    \E u \in BaseUrls, y \in YellowstoneValues, f \in IntegratorFees,
       b \in BOOLEAN :
        Constructed([fn |-> "new_self_hosted", base_url |-> u,
                     yellowstone_config |-> y, integrator_fee |-> f,
                     outcome |-> "?"],
                    new_self_hosted(u, y, f, b))

----------------------------------------------------------------------------
(* Result<T> *)

Ok(v) == [ok |-> TRUE, val |-> v]

Err(e) == [ok |-> FALSE, err |-> e]

----------------------------------------------------------------------------
(* Numeric strings: str::parse::<u64>, str::parse::<f64>, to_string *)

Digits == {"0", "1", "2", "3", "4", "5", "6", "7", "8", "9"}

DigitVal(c) ==
    CASE c = "0" -> 0 [] c = "1" -> 1 [] c = "2" -> 2 [] c = "3" -> 3
      [] c = "4" -> 4 [] c = "5" -> 5 [] c = "6" -> 6 [] c = "7" -> 7
      [] c = "8" -> 8 [] c = "9" -> 9

AllDigits(s) == \A i \in 1..Len(s) : s[i] \in Digits

RECURSIVE StripLeadingZeros(_)
StripLeadingZeros(s) ==
    IF Len(s) > 1 /\ s[1] = "0" THEN StripLeadingZeros(Tail(s)) ELSE s

RECURSIVE StripTrailingZeros(_)
StripTrailingZeros(s) ==
    IF Len(s) > 0 /\ s[Len(s)] = "0"
    THEN StripTrailingZeros(SubSeq(s, 1, Len(s) - 1))
    ELSE s

\* a <= b for digit sequences of equal length
RECURSIVE DigitsLeq(_, _)
DigitsLeq(a, b) ==
    IF Len(a) = 0 THEN TRUE
    ELSE IF DigitVal(a[1]) < DigitVal(b[1]) THEN TRUE
    ELSE IF DigitVal(a[1]) > DigitVal(b[1]) THEN FALSE
    ELSE DigitsLeq(Tail(a), Tail(b))

\* a <= b for canonical numerals
NumeralLeq(a, b) ==
    \/ Len(a) < Len(b)
    \/ Len(a) = Len(b) /\ DigitsLeq(a, b)

\* u64::MAX = 18446744073709551615
U64MaxNumeral ==
    <<"1", "8", "4", "4", "6", "7", "4", "4", "0", "7", "3", "7", "0", "9",
      "5", "5", "1", "6", "1", "5">>

\* <u64 as FromStr>::from_str: an optional leading "+", then one or more
\* decimal digits, the value at most u64::MAX.  The value is returned as its
\* canonical numeral.
ParseU64(s) ==
    LET digits == IF Len(s) > 0 /\ s[1] = "+" THEN Tail(s) ELSE s
    IN  IF Len(s) = 0 THEN Err("ParseIntError(Empty)")
        ELSE IF Len(digits) = 0 \/ ~AllDigits(digits)
        THEN Err("ParseIntError(InvalidDigit)")
        ELSE IF ~NumeralLeq(StripLeadingZeros(digits), U64MaxNumeral)
        THEN Err("ParseIntError(PosOverflow)")
        ELSE Ok(StripLeadingZeros(digits))

\* u64::to_string: the canonical numeral is the decimal string of the value
U64ToString(n) == StripLeadingZeros(n)

\* index of the first "." of s, or 0
RECURSIVE DotIndexFrom(_, _)
DotIndexFrom(s, i) ==
    IF i > Len(s) THEN 0
    ELSE IF s[i] = "." THEN i
    ELSE DotIndexFrom(s, i + 1)

\* <f64 as FromStr>::from_str on strings without exponent, "inf" or "nan":
\* an optional sign, digits, an optional "." and digits, at least one digit.
\* The value is [neg, int, frac]: sign, canonical integer numeral and the
\* fraction digits without trailing zeros (exact for the short decimals of
\* the input sets).
ParseF64(s) ==
    LET signed == Len(s) > 0 /\ s[1] \in {"+", "-"}
        body == IF signed THEN Tail(s) ELSE s
        dot == DotIndexFrom(body, 1)
        ip == IF dot = 0 THEN body ELSE SubSeq(body, 1, dot - 1)
        fp == IF dot = 0 THEN << >> ELSE SubSeq(body, dot + 1, Len(body))
    IN  IF Len(s) = 0 THEN Err("ParseFloatError(Empty)")
        ELSE IF ~AllDigits(ip) \/ ~AllDigits(fp) \/ Len(ip) + Len(fp) = 0
        THEN Err("ParseFloatError(Invalid)")
        ELSE Ok([neg |-> signed /\ s[1] = "-",
                 int |-> StripLeadingZeros(IF Len(ip) = 0 THEN <<"0">> ELSE ip),
                 frac |-> StripTrailingZeros(fp)])

\* f64::to_string (Display): shortest decimal that reads back as the value
F64ToString(x) ==
    (IF x.neg THEN <<"-">> ELSE << >>)
        \o x.int
        \o (IF Len(x.frac) = 0 THEN << >> ELSE <<".">> \o x.frac)

----------------------------------------------------------------------------
(* HTTP exchange *)

\* StatusCode::is_success
IsSuccess(status) == 200 <= status /\ status <= 299

\* Display of StatusCode: the code and its canonical reason phrase
StatusDisplay(status) ==
    CASE status = 504 -> "504 Gateway Timeout"
      [] status = 422 -> "422 Unprocessable Entity"
      [] OTHER -> ToString(status)

\* A response as the client sees it.
\*   transport_ok  send() returned a response (else connect/timeout error)
\*   status        the status code
\*   retry_after   the retry-after header, if any
\*   diag          the diagnostic headers present, among x-api-type,
\*                 x-request-id and x-rate-limit-remaining
\*   body_ok       the body could be read (text()/json() got all bytes)
\*   text          the body of an error response
\*   json          the body of a success response: [decodes, v]
Response(transport_ok, status, retry_after, body_ok, text, json) ==
    [transport_ok |-> transport_ok, status |-> status,
     retry_after |-> retry_after, diag |-> {}, body_ok |-> body_ok,
     text |-> text, json |-> json]

WithDiag(response, names) == [response EXCEPT !.diag = names]

\* Header values of the input sets holding a byte outside visible ASCII
\* (here 0x31 0x32 0xFF): HeaderValue::to_str fails on them.
OpaqueHeaderValues == {"12<0xFF>"}

\* HeaderValue::to_str(..).ok()
HeaderToStr(value) ==
    IF value \in OpaqueHeaderValues THEN None ELSE Some(value)

Undecodable == [decodes |-> FALSE]

Json(v) == [decodes |-> TRUE, v |-> v]

ReqwestError(stage) == [type |-> "reqwest::Error", msg |-> stage]

AnyhowMsg(msg) == [type |-> "anyhow", msg |-> msg]

\* (variant: a missing or unreadable retry-after is reported as 60)
retry_after_text_default(response) ==
    IF response.retry_after.some
          /\ HeaderToStr(response.retry_after.val).some
    THEN HeaderToStr(response.retry_after.val).val
    ELSE "60"

\* `headers.get("retry-after").and_then(|h| h.to_str().ok())
\*      .unwrap_or("unknown")`
retry_after_text(response) ==
    IF response.retry_after.some
          /\ HeaderToStr(response.retry_after.val).some
    THEN HeaderToStr(response.retry_after.val).val
    ELSE "unknown"

\* (variant: every status takes the catch-all arm)
error_details_generic(status, body, retry_after) ==
    "HTTP " \o StatusDisplay(status) \o ": " \o body

\* the `match status.as_u16()` of handle_error_response
error_details(status, body, retry_after) ==
    CASE status = 400 ->
           "Bad Request (400): " \o body \o ". Check your input parameters."
      [] status = 401 ->
           "Unauthorized (401): " \o body
              \o ". Check your API key and permissions."
      [] status = 403 ->
           "Forbidden (403): " \o body
              \o ". API access denied or rate limited."
      [] status = 404 ->
           "Not Found (404): " \o body
              \o ". Endpoint or resource not found."
      [] status = 429 ->
           "Rate Limited (429): " \o body \o ". Retry after "
              \o retry_after \o " seconds."
      [] status = 500 ->
           "Internal Server Error (500): " \o body
              \o ". Jupiter API server error."
      [] status = 502 ->
           "Bad Gateway (502): " \o body \o ". Upstream server error."
      [] status = 503 ->
           "Service Unavailable (503): " \o body
              \o ". Jupiter API temporarily unavailable."
      [] OTHER ->
           "HTTP " \o StatusDisplay(status) \o ": " \o body

\* JupiterClient::handle_error_response
handle_error_response(response) ==
    IF ~response.body_ok THEN Err(ReqwestError("body"))
    ELSE Ok(error_details(response.status, response.text,
                          retry_after_text(response)))

\* JupiterClient::get_quote, from the response of GET {base}/quote on
get_quote(response) ==
    IF ~response.transport_ok THEN Err(ReqwestError("send"))
    ELSE IF ~IsSuccess(response.status)
    THEN LET error_response == handle_error_response(response)
         IN  IF ~error_response.ok THEN error_response
             ELSE Err(AnyhowMsg("Jupiter quote request failed: "
                                    \o error_response.val))
    ELSE IF ~response.body_ok \/ ~response.json.decodes
    THEN Err(ReqwestError("decode"))
    ELSE LET quote_response == response.json.v
             in_amount == ParseU64(quote_response.in_amount)
             out_amount == ParseU64(quote_response.out_amount)
             price_impact_pct == ParseF64(quote_response.price_impact_pct)
         IN  IF ~in_amount.ok
             THEN Err([type |-> "ParseIntError", msg |-> in_amount.err])
             ELSE IF ~out_amount.ok
             THEN Err([type |-> "ParseIntError", msg |-> out_amount.err])
             ELSE IF ~price_impact_pct.ok
             THEN Err([type |-> "ParseFloatError",
                       msg |-> price_impact_pct.err])
             ELSE Ok([input_mint |-> quote_response.input_mint,
                      in_amount |-> in_amount.val,
                      output_mint |-> quote_response.output_mint,
                      out_amount |-> out_amount.val,
                      price_impact_pct |-> price_impact_pct.val,
                      route_plan |-> quote_response.route_plan,
                      context_slot |-> quote_response.context_slot,
                      time_taken |-> quote_response.time_taken,
                      slippage_bps |-> quote_response.slippage_bps])

\* JupiterClient::get_swap_transaction, from the response of POST
\* {base}/swap on
get_swap_transaction(response) ==
    IF ~response.transport_ok THEN Err(ReqwestError("send"))
    ELSE IF ~IsSuccess(response.status)
    THEN IF ~response.body_ok THEN Err(ReqwestError("body"))
         ELSE Err(AnyhowMsg("Jupiter swap request failed: "
                                \o response.text))
    ELSE IF ~response.body_ok \/ ~response.json.decodes
    THEN Err(ReqwestError("decode"))
    ELSE LET swap_response == response.json.v
         IN  Ok([swap_transaction |-> swap_response.swap_transaction,
                 last_valid_block_height |->
                    swap_response.last_valid_block_height,
                 prioritization_fee_lamports |->
                    swap_response.prioritization_fee_lamports,
                 compute_unit_limit |-> swap_response.compute_unit_limit])

----------------------------------------------------------------------------
(* execute_swap *)

\* Slippage percentages (in thousandths of a percent) of the input sets whose
\* f64 product with 100.0 lies just below the decimal product:
\* 0.29 * 100.0 = 28.999999999999996, 0.57 * 100.0 = 56.99999999999999,
\* 0.58 * 100.0 = 57.99999999999999.
F64ProductBelow == {290, 570, 580}

U16Max == 65535

\* (variant: the percentage is cast without the factor 100)
SlippageBpsUnscaled(slippage) ==
    IF slippage.nan \/ slippage.milli < 0 THEN 0
    ELSE IF slippage.milli \div 1000 > U16Max THEN U16Max
    ELSE slippage.milli \div 1000

\* (variant: the cast keeps the low 16 bits of the truncated product)
SlippageBpsWrapping(slippage) ==
    LET truncated == IF slippage.milli \in F64ProductBelow
                     THEN (slippage.milli \div 10) - 1
                     ELSE slippage.milli \div 10
    IN  IF slippage.nan THEN 0
        ELSE truncated % (U16Max + 1)

\* `(swap_request.slippage * 100.0) as u16`: the float-to-integer cast
\* truncates toward zero and saturates, NaN gives 0.
SlippageBps(slippage) ==
    LET truncated == IF slippage.milli \in F64ProductBelow
                     THEN (slippage.milli \div 10) - 1
                     ELSE slippage.milli \div 10
    IN  IF slippage.nan THEN 0
        ELSE IF slippage.milli < 0 THEN 0
        ELSE IF truncated > U16Max THEN U16Max
        ELSE truncated

\* (variant: the allow list is sent as exclude_dexes, the deny list as
\* dexes)
quote_request_lists_crossed(swap_request) ==
    [input_mint |-> swap_request.input_mint,
     output_mint |-> swap_request.output_mint,
     amount |-> swap_request.amount,
     slippage_bps |-> SlippageBps(swap_request.slippage),
     swap_mode |-> Some("ExactIn"),
     dexes |-> swap_request.excluded_dexes,
     exclude_dexes |-> swap_request.allowed_dexes,
     platform_fee_bps |-> None,
     max_accounts |-> Some(64)]

\* the JupiterQuoteRequest execute_swap derives from a SwapRequest
quote_request(swap_request) ==
    [input_mint |-> swap_request.input_mint,
     output_mint |-> swap_request.output_mint,
     amount |-> swap_request.amount,
     slippage_bps |-> SlippageBps(swap_request.slippage),
     swap_mode |-> Some("ExactIn"),
     dexes |-> swap_request.allowed_dexes,
     exclude_dexes |-> swap_request.excluded_dexes,
     platform_fee_bps |-> None,
     max_accounts |-> Some(64)]

\* the JupiterQuoteResponse execute_swap rebuilds from its JupiterQuote
embedded_quote_response(q) ==
    [input_mint |-> q.input_mint,
     in_amount |-> U64ToString(q.in_amount),
     output_mint |-> q.output_mint,
     out_amount |-> U64ToString(q.out_amount),
     other_amount_threshold |-> "0",
     swap_mode |-> "ExactIn",
     slippage_bps |-> q.slippage_bps,
     platform_fee |-> None,
     price_impact_pct |-> F64ToString(q.price_impact_pct),
     route_plan |-> q.route_plan,
     context_slot |-> q.context_slot,
     time_taken |-> q.time_taken]

\* (variant: the prioritization fee is a fixed 5000 lamports)
swap_request_jupiter_fixed_fee(swap_request, q) ==
    [quote_response |-> embedded_quote_response(q),
     user_public_key |-> swap_request.user_public_key,
     dynamic_compute_unit_limit |-> Some(TRUE),
     prioritization_fee_lamports |-> Some(5000),
     as_legacy_transaction |-> Some(FALSE),
     use_shared_accounts |-> Some(TRUE),
     fee_account |-> None,
     tracking_account |-> None,
     compute_unit_price_micro_lamports |-> None,
     as_versioned_transaction |-> Some(TRUE)]

\* the JupiterSwapRequest execute_swap sends
swap_request_jupiter(swap_request, q) ==
    [quote_response |-> embedded_quote_response(q),
     user_public_key |-> swap_request.user_public_key,
     dynamic_compute_unit_limit |-> Some(TRUE),
     prioritization_fee_lamports |-> Some(swap_request.priority_fee),
     as_legacy_transaction |-> Some(FALSE),
     use_shared_accounts |-> Some(TRUE),
     fee_account |-> None,
     tracking_account |-> None,
     compute_unit_price_micro_lamports |-> None,
     as_versioned_transaction |-> Some(TRUE)]

RECURSIVE GCD(_, _)
GCD(a, b) == IF b = 0 THEN a ELSE GCD(b, a % b)

LamportsPerSol == 1000000000

\* (variant: divides by 10^6)
LamportsToSolMicro(lamports) ==
    LET g == GCD(1000000, lamports)
    IN  [num |-> lamports \div g, den |-> 1000000 \div g]

\* `lamports as f64 / 1_000_000_000.0`, as a fraction in lowest terms
LamportsToSol(lamports) ==
    LET g == GCD(LamportsPerSol, lamports)
    IN  [num |-> lamports \div g, den |-> LamportsPerSol \div g]

\* (variant: the execution time is the quote's time_taken)
swap_response_timed(swap, q) ==
    [transaction |-> swap.swap_transaction,
     success |-> TRUE,
     error_message |-> "",
     actual_profit |-> 0,
     gas_used |-> LamportsToSol(swap.prioritization_fee_lamports),
     execution_time |-> q.time_taken,
     bundle_id |-> "",
     quote |-> Some(q)]

\* the SwapResponse execute_swap returns
swap_response(swap, q) ==
    [transaction |-> swap.swap_transaction,
     success |-> TRUE,
     error_message |-> "",
     actual_profit |-> 0,
     gas_used |-> LamportsToSol(swap.prioritization_fee_lamports),
     execution_time |-> 0,
     bundle_id |-> "",
     quote |-> Some(q)]

HttpRequest(c, method, route, payload) ==
    [method |-> method, url |-> c.base_url \o route, payload |-> payload,
     headers |-> c.headers]

\* execute_swap from its entry to the first await: the quote request is
\* derived and GET {base}/quote is sent
execute_swap_begin(c, swap_request) ==
    HttpRequest(c, "GET", "/quote", quote_request(swap_request))

\* (variant: the build request is sent even though get_quote failed)
execute_swap_quoted_orphan(c, swap_request, qr) ==
    IF qr.ok
    THEN [pc |-> "get_swap_transaction",
          request |-> Some(HttpRequest(c, "POST", "/swap",
                              swap_request_jupiter(swap_request, qr.val))),
          quote |-> Some(qr.val),
          ret |-> None]
    ELSE [pc |-> "done",
          request |-> Some(HttpRequest(c, "POST", "/swap", None)),
          quote |-> None,
          ret |-> Some(Err(qr.err))]

\* execute_swap from the return of get_quote (value qr) to the second await:
\* `?` returns the error, otherwise POST {base}/swap is sent
execute_swap_quoted(c, swap_request, qr) ==
    IF qr.ok
    THEN [pc |-> "get_swap_transaction",
          request |-> Some(HttpRequest(c, "POST", "/swap",
                              swap_request_jupiter(swap_request, qr.val))),
          quote |-> Some(qr.val),
          ret |-> None]
    ELSE [pc |-> "done", request |-> None, quote |-> None,
          ret |-> Some(Err(qr.err))]

\* (variant: a failed build is reported inside a SwapResponse that keeps the
\* quote)
execute_swap_swapped_partial(q, sw) ==
    IF sw.ok THEN Ok(swap_response(sw.val, q))
    ELSE Ok([transaction |-> "", success |-> FALSE,
             error_message |-> sw.err.msg, actual_profit |-> 0,
             gas_used |-> LamportsToSol(0), execution_time |-> 0,
             bundle_id |-> "", quote |-> Some(q)])

\* execute_swap from the return of get_swap_transaction (value sw) to its end
execute_swap_swapped(q, sw) ==
    IF sw.ok THEN Ok(swap_response(sw.val, q)) ELSE Err(sw.err)

----------------------------------------------------------------------------
(* Inputs of the saga: swap intents and the remote service's responses *)

Slippage(milli) == [nan |-> FALSE, milli |-> milli]

SlippageNaN == [nan |-> TRUE, milli |-> 0]

\* 0.5 %, and: 0 %, 0.005 %, 0.256 %, 0.29 %, 1 %, 99.999 %, 100 %,
\* -1 %, 655.36 %, 700 %, NaN
SlippageValues ==
    {Slippage(m) : m \in {0, 5, 256, 290, 500, 1000, 99999, 100000,
                          0 - 1000, 655360, 700000}}
        \cup {SlippageNaN}

BaseSwapRequest ==
    [input_mint |-> "MintA", output_mint |-> "MintB", amount |-> 1000000,
     user_public_key |-> "Signer1", slippage |-> Slippage(500),
     priority_fee |-> 5000, allowed_dexes |-> None, excluded_dexes |-> None,
     use_jupiter |-> TRUE]

SwapRequests ==
    {[BaseSwapRequest EXCEPT !.slippage = sl] : sl \in SlippageValues}
        \cup {[BaseSwapRequest EXCEPT !.allowed_dexes =
                                        Some(<<"Orca", "Raydium">>)],
              [BaseSwapRequest EXCEPT !.excluded_dexes = Some(<<"Phoenix">>)],
              [BaseSwapRequest EXCEPT !.input_mint = "MintB",
                                      !.output_mint = "MintA",
                                      !.amount = 1,
                                      !.user_public_key = "Signer2",
                                      !.priority_fee = 0,
                                      !.use_jupiter = FALSE]}

Hop(label, from, to, percent) ==
    [swap_info |-> [amm_key |-> "Amm-" \o label, label |-> label,
                    input_mint |-> from, in_amount |-> "600000",
                    output_mint |-> to, out_amount |-> "597",
                    fee_amount |-> "30", fee_mint |-> from],
     percent |-> percent]

RoutePlans ==
    {<<Hop("Orca", "MintA", "MintB", 60), Hop("Raydium", "MintA", "MintB", 40)>>,
     <<Hop("Orca", "MintA", "MintB", 100)>>,
     <<Hop("Orca", "MintA", "MintB", 60), Hop("Raydium", "MintA", "MintB", 30)>>,
     << >>}

BaseQuotePayload ==
    [input_mint |-> "MintA",
     in_amount |-> <<"1", "0", "0", "0", "0", "0", "0">>,
     output_mint |-> "MintB",
     out_amount |-> <<"9", "9", "5">>,
     other_amount_threshold |-> "990",
     swap_mode |-> "ExactIn",
     slippage_bps |-> 50,
     platform_fee |-> None,
     price_impact_pct |-> <<"0", ".", "1">>,
     route_plan |-> <<Hop("Orca", "MintA", "MintB", 60),
                      Hop("Raydium", "MintA", "MintB", 40)>>,
     context_slot |-> 250000001,
     time_taken |-> 15]

\* "+5", "007", "12x3", "", "-5", u64::MAX and u64::MAX + 1
AmountStrings ==
    {<<"+", "5">>, <<"0", "0", "7">>, <<"1", "2", "x", "3">>, << >>,
     <<"-", "5">>, U64MaxNumeral,
     <<"1", "8", "4", "4", "6", "7", "4", "4", "0", "7", "3", "7", "0", "9",
       "5", "5", "1", "6", "1", "6">>}

\* "0.10", ".5", "-0.25", "1.", "0.1x", "."
PriceImpactStrings ==
    {<<"0", ".", "1", "0">>, <<".", "5">>, <<"-", "0", ".", "2", "5">>,
     <<"1", ".">>, <<"0", ".", "1", "x">>, <<".">>}

QuotePayloads ==
    {BaseQuotePayload,
     [BaseQuotePayload EXCEPT !.other_amount_threshold = "0"],
     [BaseQuotePayload EXCEPT !.swap_mode = "ExactOut"],
     [BaseQuotePayload EXCEPT !.other_amount_threshold = "0",
                              !.platform_fee =
                                  Some([amount |-> "10", fee_bps |-> 20])],
     [BaseQuotePayload EXCEPT !.other_amount_threshold = "0",
                              !.input_mint = "MintB", !.output_mint = "MintA",
                              !.slippage_bps = 26, !.context_slot = 7,
                              !.time_taken = 0]}
        \cup {[BaseQuotePayload EXCEPT !.other_amount_threshold = "0",
                                       !.in_amount = a] : a \in AmountStrings}
        \cup {[BaseQuotePayload EXCEPT !.out_amount = a] : a \in AmountStrings}
        \cup {[BaseQuotePayload EXCEPT !.other_amount_threshold = "0",
                                       !.price_impact_pct = x] :
                    x \in PriceImpactStrings}
        \cup {[BaseQuotePayload EXCEPT !.other_amount_threshold = "0",
                                       !.route_plan = r] : r \in RoutePlans}

ErrorStatuses == {400, 401, 403, 404, 429, 500, 502, 503, 504, 422}

TransportFailure == Response(FALSE, 0, None, FALSE, "", Undecodable)

ErrorResponses ==
    {Response(TRUE, st, None, TRUE, "upstream says no", Undecodable) :
        st \in ErrorStatuses}
        \cup {Response(TRUE, 429, Some("12"), TRUE, "slow down", Undecodable),
              Response(TRUE, 500, None, FALSE, "", Undecodable)}

QuoteResponses ==
    {TransportFailure} \cup ErrorResponses
        \cup {Response(TRUE, 200, None, TRUE, "", Undecodable),
              Response(TRUE, 200, None, FALSE, "", Undecodable)}
        \cup {Response(TRUE, 200, None, TRUE, "", Json(p)) :
                    p \in QuotePayloads}

SwapPayloads ==
    {[swap_transaction |-> "AQABAgME", last_valid_block_height |-> 250000150,
      prioritization_fee_lamports |-> 2000000, compute_unit_limit |-> 200000,
      prioritization_fee_lamports_per_cu |-> 10],
     [swap_transaction |-> "BAUGBwgJ", last_valid_block_height |-> 250000151,
      prioritization_fee_lamports |-> 5000, compute_unit_limit |-> 1400000,
      prioritization_fee_lamports_per_cu |-> 0],
     [swap_transaction |-> "", last_valid_block_height |-> 0,
      prioritization_fee_lamports |-> 0, compute_unit_limit |-> 0,
      prioritization_fee_lamports_per_cu |-> 0]}

SwapResponses ==
    {TransportFailure,
     Response(TRUE, 400, None, TRUE, "bad quote", Undecodable),
     Response(TRUE, 500, None, FALSE, "", Undecodable),
     Response(TRUE, 200, None, TRUE, "", Undecodable)}
        \cup {Response(TRUE, 200, None, TRUE, "", Json(p)) :
                    p \in SwapPayloads}

----------------------------------------------------------------------------
(* The saga as a process: one action per stretch of execute_swap between    *)
(* two awaits                                                               *)

Tasks == 1..NumTasks

\* A task calls execute_swap(swap_request): lines 502-519 up to the await
\* inside get_quote.
ExecuteSwapStart(t, swap_requests) ==
    /\ client.constructed
    /\ pc[t] \in {"idle", "done"}
    /\ runs[t] < MaxRuns
    /\ \E sr \in swap_requests :
        /\ intent' = [intent EXCEPT ![t] = Some(sr)]
        /\ reqs' = [reqs EXCEPT ![t] = <<execute_swap_begin(client, sr)>>]
    /\ resps' = [resps EXCEPT ![t] = << >>]
    /\ quote' = [quote EXCEPT ![t] = None]
    /\ pc' = [pc EXCEPT ![t] = "get_quote"]
    /\ runs' = [runs EXCEPT ![t] = @ + 1]
    /\ UNCHANGED <<client, ctor, result, opcall, cli>>

\* (variant: the handle keeps the last quote, and the sagas in flight read
\* it back from the handle)
GetQuoteReturnsCached(t, responses) ==
    /\ pc[t] = "get_quote"
    /\ \E response \in responses :
        LET step == execute_swap_quoted(client, intent[t].val,
                                        get_quote(response))
        IN  /\ resps' = [resps EXCEPT ![t] = Append(@, response)]
            /\ pc' = [pc EXCEPT ![t] = step.pc]
            /\ quote' = [u \in Tasks |->
                            IF u = t \/ (step.quote.some /\ quote[u].some)
                            THEN step.quote ELSE quote[u]]
            /\ reqs' = [reqs EXCEPT ![t] =
                            IF step.request.some
                            THEN Append(@, step.request.val) ELSE @]
            /\ result' = [result EXCEPT ![t] =
                            IF step.ret.some THEN step.ret ELSE @]
    /\ UNCHANGED <<client, ctor, intent, runs, opcall, cli>>

\* The response to GET {base}/quote arrives: the rest of get_quote, then
\* execute_swap up to the await inside get_swap_transaction.
GetQuoteReturns(t, responses) ==
    /\ pc[t] = "get_quote"
    /\ \E response \in responses :
        LET step == execute_swap_quoted(client, intent[t].val,
                                        get_quote(response))
        IN  /\ resps' = [resps EXCEPT ![t] = Append(@, response)]
            /\ pc' = [pc EXCEPT ![t] = step.pc]
            /\ quote' = [quote EXCEPT ![t] = step.quote]
            /\ reqs' = [reqs EXCEPT ![t] =
                            IF step.request.some
                            THEN Append(@, step.request.val) ELSE @]
            /\ result' = [result EXCEPT ![t] =
                            IF step.ret.some THEN step.ret ELSE @]
    /\ UNCHANGED <<client, ctor, intent, runs, opcall, cli>>

\* The response to POST {base}/swap arrives: the rest of
\* get_swap_transaction, then execute_swap to its end.
GetSwapTransactionReturns(t, responses) ==
    /\ pc[t] = "get_swap_transaction"
    /\ \E response \in responses :
        /\ resps' = [resps EXCEPT ![t] = Append(@, response)]
        /\ result' = [result EXCEPT ![t] =
                        Some(execute_swap_swapped(quote[t].val,
                                get_swap_transaction(response)))]
    /\ pc' = [pc EXCEPT ![t] = "done"]
    /\ UNCHANGED <<client, ctor, intent, reqs, quote, runs, opcall, cli>>

----------------------------------------------------------------------------
(* Endpoint operations called directly *)

NoCall == [pc |-> "idle"]

\* The shared non-success branch of the operations that use the classifier:
\* `let e = self.handle_error_response(response).await?;
\*  return Err(anyhow!("<prefix>{}", e))`
classified_failure(prefix, response) ==
    LET error_response == handle_error_response(response)
    IN  IF ~error_response.ok THEN error_response
        ELSE Err(AnyhowMsg(prefix \o error_response.val))

\* JupiterClient::get_tokens, from the response of GET {base}/tokens on
get_tokens(response) ==
    IF ~response.transport_ok THEN Err(ReqwestError("send"))
    ELSE IF ~IsSuccess(response.status)
    THEN IF ~response.body_ok THEN Err(ReqwestError("body"))
         ELSE Err(AnyhowMsg("Jupiter tokens request failed: "
                                \o response.text))
    ELSE IF ~response.body_ok \/ ~response.json.decodes
    THEN Err(ReqwestError("decode"))
    ELSE Ok(response.json.v)

\* JupiterClient::get_price, from the response of GET {base}/price on
get_price(response) ==
    IF ~response.transport_ok THEN Err(ReqwestError("send"))
    ELSE IF ~IsSuccess(response.status)
    THEN classified_failure("Jupiter price request failed: ", response)
    ELSE IF ~response.body_ok \/ ~response.json.decodes
    THEN Err(ReqwestError("decode"))
    ELSE LET prices == response.json.v
         IN  Ok([k \in DOMAIN prices |-> prices[k].price])

\* JupiterClient::get_metis_quote, from the response of POST
\* {base}/metis/quote on.  The amount and price-impact strings of the
\* response are moved into the quote as they are: there is no parse call.
get_metis_quote(response) ==
    IF ~response.transport_ok THEN Err(ReqwestError("send"))
    ELSE IF ~IsSuccess(response.status)
    THEN classified_failure("Metis quote request failed: ", response)
    ELSE IF ~response.body_ok \/ ~response.json.decodes
    THEN Err(ReqwestError("decode"))
    ELSE LET metis_response == response.json.v
         IN  Ok([input_mint |-> metis_response.input_mint,
                 in_amount |-> metis_response.in_amount,
                 output_mint |-> metis_response.output_mint,
                 out_amount |-> metis_response.out_amount,
                 price_impact_pct |-> metis_response.price_impact_pct,
                 route_plan |-> metis_response.route_plan,
                 context_slot |-> metis_response.context_slot,
                 time_taken |-> metis_response.time_taken,
                 slippage_bps |-> metis_response.slippage_bps,
                 metis_optimization |-> metis_response.metis_optimization,
                 cross_app_state |-> metis_response.cross_app_state])

\* JupiterClient::get_ultra_quote, from the response of POST
\* {base}/ultra/quote on; the strings are moved as in get_metis_quote.
get_ultra_quote(response) ==
    IF ~response.transport_ok THEN Err(ReqwestError("send"))
    ELSE IF ~IsSuccess(response.status)
    THEN classified_failure("Ultra quote request failed: ", response)
    ELSE IF ~response.body_ok \/ ~response.json.decodes
    THEN Err(ReqwestError("decode"))
    ELSE LET ultra_response == response.json.v
         IN  Ok([input_mint |-> ultra_response.input_mint,
                 in_amount |-> ultra_response.in_amount,
                 output_mint |-> ultra_response.output_mint,
                 out_amount |-> ultra_response.out_amount,
                 price_impact_pct |-> ultra_response.price_impact_pct,
                 route_plan |-> ultra_response.route_plan,
                 context_slot |-> ultra_response.context_slot,
                 time_taken |-> ultra_response.time_taken,
                 slippage_bps |-> ultra_response.slippage_bps,
                 ultra_features |-> ultra_response.ultra_features,
                 slippage_protection |-> ultra_response.slippage_protection])

\* JupiterClient::get_health_status, from the response of GET {base}/health
get_health_status(response) ==
    IF ~response.transport_ok THEN Err(ReqwestError("send"))
    ELSE IF ~IsSuccess(response.status)
    THEN classified_failure("Health check failed: ", response)
    ELSE IF ~response.body_ok \/ ~response.json.decodes
    THEN Err(ReqwestError("decode"))
    ELSE Ok(response.json.v)

\* JupiterClient::get_api_info, from the response of GET {base}/info on
get_api_info(response) ==
    IF ~response.transport_ok THEN Err(ReqwestError("send"))
    ELSE IF ~IsSuccess(response.status)
    THEN classified_failure("API info request failed: ", response)
    ELSE IF ~response.body_ok \/ ~response.json.decodes
    THEN Err(ReqwestError("decode"))
    ELSE Ok(response.json.v)

\* the lines handle_error_response writes with error!: one per diagnostic
\* header present, then the classified message
handle_error_response_log(response) ==
    IF ~response.body_ok THEN << >>
    ELSE (IF "x-api-type" \in response.diag THEN <<"API Type">> ELSE << >>)
        \o (IF "x-request-id" \in response.diag
            THEN <<"Request ID">> ELSE << >>)
        \o (IF "x-rate-limit-remaining" \in response.diag
            THEN <<"Rate limit remaining">> ELSE << >>)
        \o <<"Jupiter API Error: " \o handle_error_response(response).val>>

EndpointNames ==
    {"get_quote", "get_swap_transaction", "get_tokens", "get_price",
     "get_metis_quote", "get_ultra_quote", "get_health_status",
     "get_api_info"}

\* the value an endpoint operation returns once its response has arrived
endpoint_result(name, response) ==
    CASE name = "get_quote" -> get_quote(response)
      [] name = "get_swap_transaction" -> get_swap_transaction(response)
      [] name = "get_tokens" -> get_tokens(response)
      [] name = "get_price" -> get_price(response)
      [] name = "get_metis_quote" -> get_metis_quote(response)
      [] name = "get_ultra_quote" -> get_ultra_quote(response)
      [] name = "get_health_status" -> get_health_status(response)
      [] name = "get_api_info" -> get_api_info(response)

\* the error! lines an endpoint operation writes for a response
endpoint_log(name, response) ==
    IF ~response.transport_ok \/ IsSuccess(response.status) THEN << >>
    ELSE IF name = "get_swap_transaction"
    THEN IF response.body_ok
         THEN <<"Jupiter swap request failed: " \o response.text>>
         ELSE << >>
    ELSE IF name = "get_tokens"
    THEN IF response.body_ok
         THEN <<"Jupiter tokens request failed: " \o response.text>>
         ELSE << >>
    ELSE handle_error_response_log(response)

\* ids.join(",")
RECURSIVE JoinComma(_)
JoinComma(ids) ==
    IF Len(ids) = 0 THEN ""
    ELSE IF Len(ids) = 1 THEN ids[1]
    ELSE ids[1] \o "," \o JoinComma(Tail(ids))

\* the one request an endpoint operation sends
endpoint_request(c, name, arg) ==
    CASE name = "get_quote" -> HttpRequest(c, "GET", "/quote", arg)
      [] name = "get_swap_transaction" ->
            HttpRequest(c, "POST", "/swap", arg)
      [] name = "get_tokens" -> HttpRequest(c, "GET", "/tokens", None)
      [] name = "get_price" ->
            HttpRequest(c, "GET", "/price", [ids |-> JoinComma(arg)])
      [] name = "get_metis_quote" ->
            HttpRequest(c, "POST", "/metis/quote", arg)
      [] name = "get_ultra_quote" ->
            HttpRequest(c, "POST", "/ultra/quote", arg)
      [] name = "get_health_status" ->
            HttpRequest(c, "GET", "/health", None)
      [] name = "get_api_info" -> HttpRequest(c, "GET", "/info", None)


\* an endpoint operation from its entry to its await: one request is sent
endpoint_called(c, name, arg) ==
    [pc |-> "await", name |-> name, arg |-> arg,
     reqs |-> <<endpoint_request(c, name, arg)>>, resps |-> << >>,
     result |-> None, log |-> << >>]

\* (variant: a rate-limited or failing upstream is asked again)
endpoint_returned_retry(c, oc, response) ==
    IF response.transport_ok /\ response.status \in {429, 500, 502, 503}
          /\ Len(oc.reqs) < 3
    THEN [oc EXCEPT !.reqs = Append(@, endpoint_request(c, oc.name, oc.arg)),
                    !.resps = Append(@, response)]
    ELSE [oc EXCEPT !.pc = "done",
                    !.resps = Append(@, response),
                    !.result = Some(endpoint_result(oc.name, response)),
                    !.log = endpoint_log(oc.name, response)]

\* an endpoint operation from the arrival of its response to its return
endpoint_returned(c, oc, response) ==
    [oc EXCEPT !.pc = "done",
               !.resps = Append(@, response),
               !.result = Some(endpoint_result(oc.name, response)),
               !.log = endpoint_log(oc.name, response)]

\* Inputs of the endpoint operations
BaseQuote == get_quote(Response(TRUE, 200, None, TRUE, "",
                                Json(BaseQuotePayload))).val

MetisOptimizationValue ==
    [enabled |-> TRUE, optimization_level |-> 3, max_iterations |-> 100,
     convergence_threshold |-> 1]

UltraFeaturesValue ==
    [enabled |-> TRUE, advanced_routing |-> TRUE, mev_protection |-> TRUE,
     gas_optimization |-> FALSE, price_impact_optimization |-> FALSE]

SlippageProtectionValue ==
    [enabled |-> TRUE, max_slippage_bps |-> 100,
     price_impact_threshold |-> 1, dynamic_slippage |-> FALSE]

MetisQuoteRequestOf(qr) ==
    [input_mint |-> qr.input_mint, output_mint |-> qr.output_mint,
     amount |-> qr.amount, slippage_bps |-> qr.slippage_bps,
     swap_mode |-> qr.swap_mode, dexes |-> qr.dexes,
     exclude_dexes |-> qr.exclude_dexes,
     platform_fee_bps |-> qr.platform_fee_bps,
     max_accounts |-> qr.max_accounts,
     metis_optimization |-> Some(MetisOptimizationValue),
     cross_app_state |-> None]

UltraQuoteRequestOf(qr) ==
    [input_mint |-> qr.input_mint, output_mint |-> qr.output_mint,
     amount |-> qr.amount, slippage_bps |-> qr.slippage_bps,
     swap_mode |-> qr.swap_mode, dexes |-> qr.dexes,
     exclude_dexes |-> qr.exclude_dexes,
     platform_fee_bps |-> qr.platform_fee_bps,
     max_accounts |-> qr.max_accounts,
     ultra_features |-> Some(UltraFeaturesValue),
     slippage_protection |-> Some(SlippageProtectionValue)]

EndpointArgs(name) ==
    CASE name = "get_quote" -> {quote_request(BaseSwapRequest)}
      [] name = "get_swap_transaction" ->
            {swap_request_jupiter(BaseSwapRequest, BaseQuote)}
      [] name = "get_price" -> {<<"MintA">>, <<"MintA", "MintB">>}
      [] name = "get_metis_quote" ->
            {MetisQuoteRequestOf(quote_request(BaseSwapRequest))}
      [] name = "get_ultra_quote" ->
            {UltraQuoteRequestOf(quote_request(BaseSwapRequest))}
      [] OTHER -> {None}

\* MetisQuoteResponse: the fields of a JupiterQuoteResponse and the two
\* optional blocks
MetisPayload(q, optimization) ==
    [input_mint |-> q.input_mint, in_amount |-> q.in_amount,
     output_mint |-> q.output_mint, out_amount |-> q.out_amount,
     other_amount_threshold |-> q.other_amount_threshold,
     swap_mode |-> q.swap_mode, slippage_bps |-> q.slippage_bps,
     platform_fee |-> q.platform_fee,
     price_impact_pct |-> q.price_impact_pct, route_plan |-> q.route_plan,
     context_slot |-> q.context_slot, time_taken |-> q.time_taken,
     metis_optimization |-> optimization, cross_app_state |-> None]

\* UltraQuoteResponse
UltraPayload(q, features) ==
    [input_mint |-> q.input_mint, in_amount |-> q.in_amount,
     output_mint |-> q.output_mint, out_amount |-> q.out_amount,
     other_amount_threshold |-> q.other_amount_threshold,
     swap_mode |-> q.swap_mode, slippage_bps |-> q.slippage_bps,
     platform_fee |-> q.platform_fee,
     price_impact_pct |-> q.price_impact_pct, route_plan |-> q.route_plan,
     context_slot |-> q.context_slot, time_taken |-> q.time_taken,
     ultra_features |-> features,
     slippage_protection |-> IF features.some
                             THEN Some(SlippageProtectionValue) ELSE None]

TokenInfoValue(address, symbol) ==
    [address |-> address, chain_id |-> 101, decimals |-> 9,
     name |-> symbol, symbol |-> symbol, logo_uri |-> None,
     tags |-> << >>, extensions |-> None]

PriceDataValue(id, price) ==
    [id |-> id, mint_symbol |-> id, vs_token |-> "USDC",
     vs_token_symbol |-> "USDC", price |-> price]

EndpointPayloads(name) ==
    CASE name = "get_quote" -> QuotePayloads
      [] name = "get_swap_transaction" -> SwapPayloads
      [] name = "get_tokens" ->
            {[a \in {"MintA", "MintB"} |-> TokenInfoValue(a, a)],
             [a \in {} |-> TokenInfoValue(a, a)]}
      [] name = "get_price" ->
            {[a \in {"MintA"} |-> PriceDataValue(a, 25)],
             [a \in {"MintA", "MintB"} |-> PriceDataValue(a, 1)]}
      [] name = "get_metis_quote" ->
            {MetisPayload(q, o) :
                q \in QuotePayloads,
                o \in {None, Some(MetisOptimizationValue)}}
      [] name = "get_ultra_quote" ->
            {UltraPayload(q, f) :
                q \in QuotePayloads, f \in {None, Some(UltraFeaturesValue)}}
      [] name = "get_health_status" ->
            {[status |-> "Healthy", timestamp |-> 1700000000,
              version |-> "6.0.0", uptime |-> 3600, last_error |-> None,
              rate_limit_status |-> None],
             [status |-> "Degraded", timestamp |-> 1700000001,
              version |-> "6.0.0", uptime |-> 1,
              last_error |-> Some("upstream slow"),
              rate_limit_status |->
                  Some([remaining |-> 0, reset_time |-> 1700000060,
                        limit |-> 600])]}
      [] name = "get_api_info" ->
            {[version |-> "6.0.0", api_type |-> "public",
              supported_features |-> <<"quote", "swap">>,
              rate_limits |-> [requests_per_minute |-> 600,
                               requests_per_hour |-> 36000,
                               requests_per_day |-> 864000],
              endpoints |-> <<[name |-> "quote", path |-> "/quote",
                               method |-> "GET", rate_limit |-> 600]>>]}

DiagHeaderNames == {"x-api-type", "x-request-id", "x-rate-limit-remaining"}

\* error responses with and without diagnostic headers, a 429 whose
\* retry-after is not visible ASCII and a 503 that carries a retry-after
DiagnosedErrorResponses ==
    ErrorResponses
        \cup {WithDiag(r, DiagHeaderNames) : r \in ErrorResponses}
        \cup {WithDiag(Response(TRUE, 404, None, TRUE, "no route",
                                Undecodable), {"x-request-id"}),
              Response(TRUE, 429, Some("12<0xFF>"), TRUE, "slow down",
                       Undecodable),
              Response(TRUE, 503, Some("30"), TRUE, "maintenance",
                       Undecodable)}

EndpointResponses(name) ==
    {TransportFailure} \cup DiagnosedErrorResponses
        \cup {Response(TRUE, 200, None, TRUE, "", Undecodable),
              Response(TRUE, 200, None, FALSE, "", Undecodable)}
        \cup {Response(TRUE, 200, None, TRUE, "", Json(p)) :
                    p \in EndpointPayloads(name)}

AllEndpointResponses == UNION {EndpointResponses(n) : n \in EndpointNames}

\* A task calls an endpoint operation: the code up to its await.
EndpointCall(t, names) ==
    /\ client.constructed
    /\ opcall[t].pc \in {"idle", "done"}
    /\ \E name \in names :
        \E arg \in EndpointArgs(name) :
            opcall' = [opcall EXCEPT ![t] = endpoint_called(client, name, arg)]
    /\ UNCHANGED <<client, ctor, sagaVars, cli>>

\* The response (one of `responses`) arrives: the rest of the operation.
EndpointReturns(t, responses) ==
    /\ opcall[t].pc = "await"
    /\ \E response \in EndpointResponses(opcall[t].name) \cap responses :
        opcall' = [opcall EXCEPT ![t] =
                        endpoint_returned(client, opcall[t], response)]
    /\ UNCHANGED <<client, ctor, sagaVars, cli>>

----------------------------------------------------------------------------
(* The command-line entry point (main.rs) *)

\* main has not run
NoCli == [pc |-> "none"]

\* the subcommands that call the Jupiter client, with their arguments
Commands ==
    {[name |-> n, input_mint |-> "MintA", output_mint |-> "MintB",
      amount |-> 1000000] : n \in {"TestJupiter", "TestMetis", "TestUltra"}}
        \cup {[name |-> "TestJupiter", input_mint |-> "MintB",
               output_mint |-> "MintA", amount |-> 1]}
        \cup {[name |-> n] : n \in {"Health", "Info"}}

\* the endpoint operation a subcommand calls
command_operation(command) ==
    CASE command.name = "TestJupiter" -> "get_quote"
      [] command.name = "TestMetis" -> "get_metis_quote"
      [] command.name = "TestUltra" -> "get_ultra_quote"
      [] command.name = "Health" -> "get_health_status"
      [] command.name = "Info" -> "get_api_info"

\* the JupiterQuoteRequest fields the three test subcommands fill in
command_quote_request(command) ==
    [input_mint |-> command.input_mint,
     output_mint |-> command.output_mint,
     amount |-> command.amount,
     slippage_bps |-> 50,
     swap_mode |-> Some("ExactIn"),
     dexes |-> None,
     exclude_dexes |-> None,
     platform_fee_bps |-> None,
     max_accounts |-> Some(64)]

\* the argument a subcommand passes to its endpoint operation
command_request(command) ==
    LET base == command_quote_request(command)
    IN  CASE command.name = "TestJupiter" -> base
          [] command.name = "TestMetis" ->
                [input_mint |-> base.input_mint,
                 output_mint |-> base.output_mint,
                 amount |-> base.amount, slippage_bps |-> base.slippage_bps,
                 swap_mode |-> base.swap_mode, dexes |-> base.dexes,
                 exclude_dexes |-> base.exclude_dexes,
                 platform_fee_bps |-> base.platform_fee_bps,
                 max_accounts |-> base.max_accounts,
                 metis_optimization |->
                    Some([enabled |-> TRUE, optimization_level |-> 3,
                          max_iterations |-> 100,
                          convergence_threshold |-> 1]),
                 cross_app_state |-> None]
          [] command.name = "TestUltra" ->
                [input_mint |-> base.input_mint,
                 output_mint |-> base.output_mint,
                 amount |-> base.amount, slippage_bps |-> base.slippage_bps,
                 swap_mode |-> base.swap_mode, dexes |-> base.dexes,
                 exclude_dexes |-> base.exclude_dexes,
                 platform_fee_bps |-> base.platform_fee_bps,
                 max_accounts |-> base.max_accounts,
                 ultra_features |->
                    Some([enabled |-> TRUE, advanced_routing |-> TRUE,
                          mev_protection |-> TRUE, gas_optimization |-> TRUE,
                          price_impact_optimization |-> TRUE]),
                 slippage_protection |->
                    Some([enabled |-> TRUE, max_slippage_bps |-> 50,
                          price_impact_threshold |-> 2000,
                          dynamic_slippage |-> TRUE])]
          [] OTHER -> None

\* the message of the Err arm of each subcommand
command_failure_prefix(command) ==
    CASE command.name = "TestJupiter" -> "Jupiter quote failed: "
      [] command.name = "TestMetis" -> "Metis quote failed: "
      [] command.name = "TestUltra" -> "Ultra quote failed: "
      [] command.name = "Health" -> "Health check failed: "
      [] command.name = "Info" -> "API info request failed: "

\* the first info! line of the Ok arm of each subcommand
command_success_line(command) ==
    CASE command.name = "TestJupiter" -> "Jupiter quote received:"
      [] command.name = "TestMetis" -> "Metis quote received:"
      [] command.name = "TestUltra" -> "Ultra quote received:"
      [] command.name = "Health" -> "Jupiter API Health Status:"
      [] command.name = "Info" -> "Jupiter API Information:"

\* the `jupiter` section of the configuration: the fields main reads
\* (enabled, api_url, api_key) and the tier fields it does not read
JupiterConfigs ==
    [enabled : BOOLEAN,
     api_url : BaseUrls,
     api_key : ApiKeys,
     api_type : {"Public", "Pro", "Ultra"},
     integrator_fee : {None, Some([fee_bps |-> 25,
                                   fee_account |-> "FeeAcct1"])},
     yellowstone_config :
        {None, Some([grpc_endpoint |-> "grpc.host:10000",
                     x_token |-> "tok-1"])}]

\* what Config::load returns: the configuration, or an error
ConfigLoads ==
    {Err([type |-> "ConfigError", msg |-> "config.toml"])}
        \cup {Ok([jupiter |-> j]) : j \in JupiterConfigs}

\* main from its entry to its first await or to its end: the
\* configuration is loaded (`?` returns its error), the client is built
\* when the configuration enables it, and the arm of the subcommand calls
\* its endpoint operation or reports that there is no client.
main_started(command, load, build_ok) ==
    IF ~load.ok
    THEN [cli |-> [pc |-> "exited", command |-> command, load |-> load,
                   exit |-> Err(load.err), report |-> None],
          client |-> NoClient, opcall |-> NoCall]
    ELSE IF ~load.val.jupiter.enabled
    THEN [cli |-> [pc |-> "exited", command |-> command, load |-> load,
                   exit |-> Ok("()"),
                   report |-> Some([level |-> "error",
                                    msg |-> "Jupiter client not available. "
                                        \o "Enable Jupiter in config."])],
          client |-> NoClient, opcall |-> NoCall]
    ELSE LET built == new(load.val.jupiter.api_url,
                          load.val.jupiter.api_key, build_ok)
         IN  IF built.outcome # "ok"
             THEN [cli |-> [pc |-> "exited", command |-> command,
                            load |-> load, exit |-> Err([type |-> "panic",
                                                         msg |-> built.at]),
                            report |-> None],
                   client |-> NoClient, opcall |-> NoCall]
             ELSE [cli |-> [pc |-> "await", command |-> command,
                            load |-> load, exit |-> None, report |-> None],
                   client |-> built.client,
                   opcall |-> endpoint_called(built.client,
                                  command_operation(command),
                                  command_request(command))]

\* (variant: the Err arm returns the error from main)
main_resumed_propagating(c, returned) ==
    IF returned.ok
    THEN [c EXCEPT !.pc = "exited", !.exit = Ok("()"),
                   !.report = Some([level |-> "info",
                                    msg |-> command_success_line(c.command)])]
    ELSE [c EXCEPT !.pc = "exited", !.exit = Err(returned.err),
                   !.report = None]

\* main from the return of the endpoint operation (value `returned`) to its
\* end: both arms of the match log, then main returns Ok(()).
main_resumed(c, returned) ==
    [c EXCEPT !.pc = "exited", !.exit = Ok("()"),
              !.report =
                 IF returned.ok
                 THEN Some([level |-> "info",
                            msg |-> command_success_line(c.command)])
                 ELSE Some([level |-> "error",
                            prefix |-> command_failure_prefix(c.command),
                            err |-> returned.err])]

\* the responses the remote service gives to the operation of a subcommand
CliResponses(name) ==
    {TransportFailure,
     Response(TRUE, 429, Some("12"), TRUE, "slow down", Undecodable),
     Response(TRUE, 503, None, TRUE, "maintenance", Undecodable),
     Response(TRUE, 500, None, FALSE, "", Undecodable),
     Response(TRUE, 200, None, TRUE, "", Undecodable)}
        \cup {Response(TRUE, 200, None, TRUE, "", Json(p)) :
                    p \in EndpointPayloads(name)}

\* The process is started with a subcommand: main up to its first await.
MainStarts ==
    /\ cli = NoCli
    /\ \E command \in Commands, load \in ConfigLoads, build_ok \in BOOLEAN :
        LET step == main_started(command, load, build_ok)
        IN  /\ cli' = step.cli
            /\ client' = step.client
            /\ opcall' = [opcall EXCEPT ![1] = step.opcall]
            /\ ctor' = IF load.ok /\ load.val.jupiter.enabled
                       THEN [fn |-> "new",
                             base_url |-> load.val.jupiter.api_url,
                             api_key |-> load.val.jupiter.api_key,
                             outcome |-> IF step.client.constructed
                                         THEN "ok" ELSE "panic"]
                       ELSE ctor
    /\ UNCHANGED sagaVars

\* The response arrives: the rest of the endpoint operation, then the rest
\* of main.
MainResumes ==
    /\ cli.pc = "await"
    /\ opcall[1].pc = "await"
    /\ \E response \in CliResponses(opcall[1].name) :
        LET oc == endpoint_returned(client, opcall[1], response)
        IN  /\ opcall' = [opcall EXCEPT ![1] = oc]
            /\ cli' = main_resumed(cli, oc.result.val)
    /\ UNCHANGED <<client, ctor, sagaVars>>

----------------------------------------------------------------------------
(* Specifications *)

SagaInit ==
    /\ pc = [t \in Tasks |-> "idle"]
    /\ intent = [t \in Tasks |-> None]
    /\ reqs = [t \in Tasks |-> << >>]
    /\ resps = [t \in Tasks |-> << >>]
    /\ quote = [t \in Tasks |-> None]
    /\ result = [t \in Tasks |-> None]
    /\ runs = [t \in Tasks |-> 0]
    /\ opcall = [t \in Tasks |-> NoCall]
    /\ cli = NoCli

\* Construction: nothing is constructed yet, one constructor call follows.
InitCtor ==
    /\ client = NoClient
    /\ ctor = NoCtor
    /\ SagaInit

NextCtor ==
    \/ CallNewWithConfig
    \/ CallNew
    \/ CallNewPublic
    \/ CallNewPro
    \/ CallNewLite
    \/ CallNewUltra
    \/ CallNewSelfHosted

SpecCtor == InitCtor /\ [][NextCtor]_vars

\* The saga: a client has been constructed (public, or pro with a key) and
\* one task calls execute_swap, again and again.
Init ==
    /\ \/ /\ ctor = [fn |-> "new_public", outcome |-> "ok"]
          /\ client = new_public(TRUE).client
       \/ /\ ctor = [fn |-> "new_pro", api_key |-> "key-1", outcome |-> "ok"]
          /\ client = new_pro("key-1", TRUE).client
    /\ SagaInit

Next ==
    \/ ExecuteSwapStart(1, SwapRequests)
    \/ GetQuoteReturns(1, QuoteResponses)
    \/ GetSwapTransactionReturns(1, SwapResponses)

Spec == Init /\ [][Next]_vars

\* The endpoint operations: a client has been constructed and one task calls
\* endpoint operations, one after the other.
NextOps ==
    \/ EndpointCall(1, EndpointNames)
    \/ EndpointReturns(1, AllEndpointResponses)

SpecOps == Init /\ [][NextOps]_vars

\* Sagas and endpoint operations of one task.  The task either runs sagas
\* or calls endpoint operations, so that the two state spaces add up
\* instead of multiplying.
NextAll ==
    \/ opcall[1].pc = "idle" /\ Next
    \/ runs[1] = 0 /\ NextOps

SpecAll == Init /\ [][NextAll]_vars

\* Inputs of the concurrent sagas: two intents, two quotes that differ, a
\* rate-limited quote call, a build that succeeds and one that fails
ConcSwapRequests ==
    {BaseSwapRequest,
     [BaseSwapRequest EXCEPT !.input_mint = "MintB", !.output_mint = "MintA",
                             !.user_public_key = "Signer2",
                             !.priority_fee = 0]}

ConcQuoteResponses ==
    {Response(TRUE, 200, None, TRUE, "", Json(BaseQuotePayload)),
     Response(TRUE, 200, None, TRUE, "",
              Json([BaseQuotePayload EXCEPT !.input_mint = "MintB",
                                            !.output_mint = "MintA",
                                            !.out_amount = <<"7">>,
                                            !.context_slot = 7])),
     Response(TRUE, 429, Some("12"), TRUE, "slow down", Undecodable)}

ConcSwapResponses ==
    {Response(TRUE, 200, None, TRUE, "",
              Json([swap_transaction |-> "AQABAgME",
                    last_valid_block_height |-> 250000150,
                    prioritization_fee_lamports |-> 2000000,
                    compute_unit_limit |-> 200000,
                    prioritization_fee_lamports_per_cu |-> 10])),
     Response(TRUE, 400, None, TRUE, "bad quote", Undecodable)}

ConcEndpointResponses ==
    {Response(TRUE, 503, Some("30"), TRUE, "maintenance", Undecodable)}
        \cup {Response(TRUE, 200, None, TRUE, "", Json(p)) :
                    p \in EndpointPayloads("get_health_status")}

\* Concurrent use of one shared handle: every task runs one saga or calls
\* get_health_status once, in any interleaving.
NextConc ==
    \E t \in Tasks :
        \/ /\ opcall[t].pc = "idle"
           /\ runs[t] = 0
           /\ ExecuteSwapStart(t, ConcSwapRequests)
        \/ GetQuoteReturns(t, ConcQuoteResponses)
        \/ GetSwapTransactionReturns(t, ConcSwapResponses)
        \/ /\ opcall[t].pc = "idle"
           /\ runs[t] = 0
           /\ EndpointCall(t, {"get_health_status"})
        \/ EndpointReturns(t, ConcEndpointResponses)

SpecConc == Init /\ [][NextConc]_vars

\* The command line: the process is started once with one subcommand.
InitMain ==
    /\ client = NoClient
    /\ ctor = NoCtor
    /\ SagaInit

NextMain ==
    \/ MainStarts
    \/ MainResumes

SpecMain == InitMain /\ [][NextMain]_vars

----------------------------------------------------------------------------
(* Properties of the saga (checked under Spec) *)

\* the remote get-quote call fails: transport error, non-success status,
\* undecodable body, or an amount / price-impact string that does not parse
QuoteCallFails(response) ==
    IF ~response.transport_ok THEN TRUE
    ELSE IF ~IsSuccess(response.status) THEN TRUE
    ELSE IF ~response.body_ok \/ ~response.json.decodes THEN TRUE
    ELSE \/ ~ParseU64(response.json.v.in_amount).ok
         \/ ~ParseU64(response.json.v.out_amount).ok
         \/ ~ParseF64(response.json.v.price_impact_pct).ok

\* the remote build-swap-transaction call fails
SwapCallFails(response) ==
    IF ~response.transport_ok THEN TRUE
    ELSE IF ~IsSuccess(response.status) THEN TRUE
    ELSE ~response.body_ok \/ ~response.json.decodes

IsSwapPost(request) ==
    request.method = "POST" /\ request.url = client.base_url \o "/swap"

IsQuoteGet(request) ==
    request.method = "GET" /\ request.url = client.base_url \o "/quote"

\* C1: whenever the get-quote call of an execution of execute_swap has
\* failed, that execution has issued no POST {base}/swap request, it has
\* ended, and what it returned is the failure of get_quote itself.
C1_NoBuildAfterFailedQuote ==
    \A t \in Tasks :
        (Len(resps[t]) >= 1 /\ QuoteCallFails(resps[t][1])) =>
            /\ \A i \in 1..Len(reqs[t]) : ~IsSwapPost(reqs[t][i])
            /\ Len(reqs[t]) = 1
            /\ pc[t] = "done"
            /\ result[t] = Some(get_quote(resps[t][1]))
            /\ ~result[t].val.ok

\* an execution ended by an amount string that does not parse
C1_Witness ==
    \E t \in Tasks :
        /\ pc[t] = "done"
        /\ Len(resps[t]) = 1
        /\ QuoteCallFails(resps[t][1])
        /\ result[t] = Some(Err([type |-> "ParseIntError",
                                 msg |-> "ParseIntError(InvalidDigit)"]))

\* C2: when the build-swap-transaction call fails after a successful
\* get-quote, execute_swap returns that failure and no SwapResponse or quote;
\* the client handle is what the constructor made, and an execution that has
\* just started holds no quote and has issued exactly the GET {base}/quote
\* request derived from its own intent.
C2_BuildFailureFailsAll ==
    /\ \A t \in Tasks :
        (Len(resps[t]) = 2 /\ SwapCallFails(resps[t][2])) =>
            /\ pc[t] = "done"
            /\ ~result[t].val.ok
            /\ result[t] = Some(get_swap_transaction(resps[t][2]))
    /\ \A t \in Tasks :
        pc[t] = "get_quote" =>
            /\ quote[t] = None
            /\ resps[t] = << >>
            /\ reqs[t] = <<HttpRequest(client, "GET", "/quote",
                                       quote_request(intent[t].val))>>
    /\ client = IF ctor.fn = "new_public"
                THEN new_with_config("https://quote-api.jup.ag/v6", None,
                                     "Public", None, None, TRUE).client
                ELSE new_with_config("https://api.jup.ag/v6",
                                     Some(ctor.api_key), "Pro", None, None,
                                     TRUE).client

\* the build call of the previous execution failed and the next execution
\* has started with its get-quote request
C2_Witness ==
    \E t \in Tasks :
        /\ runs[t] >= 2
        /\ pc[t] = "get_quote"
        /\ result[t] = Some(Err(AnyhowMsg(
                            "Jupiter swap request failed: bad quote")))
        /\ IsQuoteGet(reqs[t][1])

\* C3: the quote_response embedded in the build request equals, field by
\* field, the JupiterQuoteResponse that the get-quote call received.
C3_QuoteEmbeddedVerbatim ==
    \A t \in Tasks :
        (Len(reqs[t]) = 2 /\ IsSwapPost(reqs[t][2])) =>
            reqs[t][2].payload.quote_response = resps[t][1].json.v

----------------------------------------------------------------------------
(* Properties of construction (checked under SpecCtor) *)

HeaderNames(h) == {p[1] : p \in h}

HasHeader(h, name) == name \in HeaderNames(h)

\* C4: a client made by the general constructor carries exactly the fixed
\* headers and the tier marker, the bearer header iff a credential was
\* supplied, the integrator-fee pair iff an integrator-fee config was
\* supplied and the feed pair iff a feed config was supplied, one value per
\* header, the optional ones carrying the supplied values.
C4_ExactHeaderSet ==
    (ctor.fn = "new_with_config" /\ ctor.outcome = "ok") =>
        /\ HeaderNames(client.headers) =
              {"Content-Type", "User-Agent", "X-API-Type"}
                \cup (IF ctor.api_key.some THEN {"Authorization"} ELSE {})
                \cup (IF ctor.integrator_fee.some
                      THEN {"X-Integrator-Fee", "X-Integrator-Account"}
                      ELSE {})
                \cup (IF ctor.yellowstone_config.some
                      THEN {"X-Yellowstone-Endpoint", "X-Yellowstone-Token"}
                      ELSE {})
        /\ Cardinality(client.headers) =
              Cardinality(HeaderNames(client.headers))
        /\ <<"Content-Type", "application/json">> \in client.headers
        /\ <<"User-Agent", "Jupiter-Arbitrage-Bot/1.0">> \in client.headers
        /\ ctor.api_key.some =>
              <<"Authorization", "Bearer " \o ctor.api_key.val>>
                    \in client.headers
        /\ ctor.integrator_fee.some =>
              /\ <<"X-Integrator-Fee",
                   ToString(ctor.integrator_fee.val.fee_bps)>>
                        \in client.headers
              /\ <<"X-Integrator-Account",
                   ctor.integrator_fee.val.fee_account>> \in client.headers
        /\ ctor.yellowstone_config.some =>
              /\ <<"X-Yellowstone-Endpoint",
                   ctor.yellowstone_config.val.grpc_endpoint>>
                        \in client.headers
              /\ <<"X-Yellowstone-Token",
                   ctor.yellowstone_config.val.x_token>> \in client.headers

\* the general constructor was given all three optional configs for a tier
\* that needs none of them
C4_Witness ==
    /\ ctor.fn = "new_with_config"
    /\ ctor.outcome = "ok"
    /\ ctor.api_type = "Lite"
    /\ ctor.api_key.some
    /\ ctor.integrator_fee.some
    /\ ctor.yellowstone_config.some
    /\ Cardinality(client.headers) = 8

TierTag ==
    [Public |-> "public", Pro |-> "pro", Lite |-> "lite",
     SelfHosted |-> "self-hosted", Ultra |-> "ultra"]

\* the parameters a constructor call hands to the general constructor
GeneralParams(c) ==
    CASE c.fn = "new_with_config" ->
            [base_url |-> c.base_url, api_key |-> c.api_key,
             api_type |-> c.api_type, integrator_fee |-> c.integrator_fee,
             yellowstone_config |-> c.yellowstone_config]
      [] c.fn = "new" ->
            [base_url |-> c.base_url, api_key |-> c.api_key,
             api_type |-> "Public", integrator_fee |-> None,
             yellowstone_config |-> None]
      [] c.fn = "new_public" ->
            [base_url |-> "https://quote-api.jup.ag/v6", api_key |-> None,
             api_type |-> "Public", integrator_fee |-> None,
             yellowstone_config |-> None]
      [] c.fn = "new_pro" ->
            [base_url |-> "https://api.jup.ag/v6",
             api_key |-> Some(c.api_key), api_type |-> "Pro",
             integrator_fee |-> None, yellowstone_config |-> None]
      [] c.fn = "new_lite" ->
            [base_url |-> "https://lite-api.jup.ag/v6", api_key |-> None,
             api_type |-> "Lite", integrator_fee |-> None,
             yellowstone_config |-> None]
      [] c.fn = "new_ultra" ->
            [base_url |-> "https://ultra-api.jup.ag/v6",
             api_key |-> Some(c.api_key), api_type |-> "Ultra",
             integrator_fee |-> None, yellowstone_config |-> None]
      [] c.fn = "new_self_hosted" ->
            [base_url |-> c.base_url, api_key |-> None,
             api_type |-> "SelfHosted", integrator_fee |-> c.integrator_fee,
             yellowstone_config |-> Some(c.yellowstone_config)]

\* C5: every constructed client has exactly one tier marker header, its
\* value is the tag of the tier the client was constructed with and of the
\* tier tag it stores, the five tags are pairwise distinct, the stored
\* configs are the supplied ones, and integrator-fee headers are present
\* only if the stored integrator-fee config is.
C5_TierMarkerConsistent ==
    client.constructed =>
        /\ Cardinality({p \in client.headers : p[1] = "X-API-Type"}) = 1
        /\ <<"X-API-Type", TierTag[GeneralParams(ctor).api_type]>>
                \in client.headers
        /\ client.api_type = GeneralParams(ctor).api_type
        /\ \A a, b \in JupiterApiType :
                ApiTypeHeader(a) = ApiTypeHeader(b) => a = b
        /\ client.api_key = GeneralParams(ctor).api_key
        /\ client.integrator_fee = GeneralParams(ctor).integrator_fee
        /\ client.yellowstone_config = GeneralParams(ctor).yellowstone_config
        /\ (HasHeader(client.headers, "X-Integrator-Fee")
              \/ HasHeader(client.headers, "X-Integrator-Account"))
                => client.integrator_fee.some

\* a self-hosted client with an integrator fee
C5_Witness ==
    /\ client.constructed
    /\ client.api_type = "SelfHosted"
    /\ <<"X-API-Type", "self-hosted">> \in client.headers
    /\ client.integrator_fee.some
    /\ HasHeader(client.headers, "X-Integrator-Fee")

\* some supplied config does not parse as a header value
InvalidConfig(c) ==
    LET g == GeneralParams(c)
    IN  \/ g.api_key.some /\ g.api_key.val \in {"sk\nlive"}
        \/ g.integrator_fee.some
              /\ g.integrator_fee.val.fee_account \in {"acct\n1"}
        \/ g.yellowstone_config.some
              /\ \/ g.yellowstone_config.val.grpc_endpoint \in {"grpc\nhost"}
                 \/ g.yellowstone_config.val.x_token \in {"tok\n1"}

\* C6: a constructor call with a config that is not a valid header value
\* ends by returning a ConfigurationError, without a client handle.
C6_ConfigurationErrorReturned ==
    (ctor.fn # "none" /\ InvalidConfig(ctor)) =>
        /\ ctor.outcome = "ConfigurationError"
        /\ client = NoClient

ShortcutFns ==
    {"new", "new_public", "new_pro", "new_lite", "new_ultra",
     "new_self_hosted"}

\* C7: a client made by a construction shortcut equals the client the
\* general constructor makes from the same parameters; pro and ultra clients
\* carry the bearer header, public and lite clients do not, self-hosted
\* clients carry both feed headers and no bearer header.
C7_ShortcutsAreSugar ==
    (ctor.fn \in ShortcutFns /\ ctor.outcome = "ok") =>
        LET g == GeneralParams(ctor)
            general == new_with_config(g.base_url, g.api_key, g.api_type,
                                       g.integrator_fee,
                                       g.yellowstone_config, TRUE)
        IN  /\ general.outcome = "ok"
            /\ client = general.client
            /\ client.base_url = g.base_url
            /\ ctor.fn \in {"new_pro", "new_ultra"} =>
                  <<"Authorization", "Bearer " \o ctor.api_key>>
                        \in client.headers
            /\ ctor.fn \in {"new_public", "new_lite", "new_self_hosted"} =>
                  ~HasHeader(client.headers, "Authorization")
            /\ ctor.fn = "new_self_hosted" =>
                  /\ HasHeader(client.headers, "X-Yellowstone-Endpoint")
                  /\ HasHeader(client.headers, "X-Yellowstone-Token")

\* a pro client made by its shortcut
C7_Witness ==
    /\ ctor.fn = "new_pro"
    /\ ctor.outcome = "ok"
    /\ client.api_type = "Pro"
    /\ client.base_url = "https://api.jup.ag/v6"
    /\ HasHeader(client.headers, "Authorization")

----------------------------------------------------------------------------
(* Numerical properties of the saga (checked under Spec) *)

\* round(percent * 100), halves away from zero, for a percentage of `milli`
\* thousandths of a percent that is not negative
RoundedBps(milli) == (milli + 5) \div 10

\* C8: the slippage_bps of the quote request of every execution is
\* round(percent * 100) of the intent's slippage percentage (stated for the
\* percentages that are numbers, not negative, and whose rounded value fits
\* the 16-bit field).
C8_SlippageRounded ==
    \A t \in Tasks :
        (/\ Len(reqs[t]) >= 1
         /\ ~intent[t].val.slippage.nan
         /\ intent[t].val.slippage.milli >= 0
         /\ RoundedBps(intent[t].val.slippage.milli) <= U16Max) =>
            reqs[t][1].payload.slippage_bps =
                RoundedBps(intent[t].val.slippage.milli)

\* C9: for every intent whose slippage percentage p lies in [0, 100], the
\* bps of the quote request, converted back as bps / 100, is within 0.01 of
\* p (in thousandths of a percent: within 10).
C9_SlippageRoundTrip ==
    \A t \in Tasks :
        (/\ Len(reqs[t]) >= 1
         /\ ~intent[t].val.slippage.nan
         /\ intent[t].val.slippage.milli >= 0
         /\ intent[t].val.slippage.milli <= 100000) =>
            LET back == reqs[t][1].payload.slippage_bps * 10
                p == intent[t].val.slippage.milli
            IN  /\ back - p <= 10
                /\ p - back <= 10

\* a quote request was issued for 0.29 %, whose product with 100 falls just
\* below 29, and one for 99.999 %
C9_Witness ==
    \E t \in Tasks :
        /\ Len(reqs[t]) >= 1
        /\ intent[t].val.slippage \in {Slippage(290), Slippage(99999)}
        /\ reqs[t][1].payload.slippage_bps \in {28, 9999}

\* C10: when both calls of an execution succeed, the SwapResponse returned
\* carries the transaction payload of the build response, a gas_used equal
\* to the build response's prioritization fee divided by 10^9 (2_000_000
\* gives 2/1000) and, always present, the quote that get_quote made of the
\* quote response of the same execution.
C10_SwapResponseOnSuccess ==
    \A t \in Tasks :
        (/\ pc[t] = "done"
         /\ Len(resps[t]) = 2
         /\ ~QuoteCallFails(resps[t][1])
         /\ ~SwapCallFails(resps[t][2])) =>
            LET built == resps[t][2].json.v
                out == result[t].val
            IN  /\ out.ok
                /\ out.val.transaction = built.swap_transaction
                /\ out.val.gas_used.num * LamportsPerSol =
                      built.prioritization_fee_lamports
                        * out.val.gas_used.den
                /\ out.val.gas_used.den > 0
                /\ built.prioritization_fee_lamports = 2000000 =>
                      out.val.gas_used.num * 1000 = 2 * out.val.gas_used.den
                /\ out.val.quote.some
                /\ Ok(out.val.quote.val) = get_quote(resps[t][1])
                /\ out.val.quote = quote[t]

\* an execution that succeeded with a build response whose fee is 2_000_000
C10_Witness ==
    \E t \in Tasks :
        /\ pc[t] = "done"
        /\ Len(resps[t]) = 2
        /\ result[t].val.ok
        /\ resps[t][2].json.v.prioritization_fee_lamports = 2000000
        /\ result[t].val.val.transaction = "AQABAgME"
        /\ result[t].val.val.gas_used = [num |-> 1, den |-> 500]
        /\ result[t].val.val.quote.some

----------------------------------------------------------------------------
(* Properties of the endpoint operations (checked under SpecOps) *)

\* the message prefix of each operation's failure
FailurePrefix ==
    [get_quote |-> "Jupiter quote request failed: ",
     get_swap_transaction |-> "Jupiter swap request failed: ",
     get_tokens |-> "Jupiter tokens request failed: ",
     get_price |-> "Jupiter price request failed: ",
     get_metis_quote |-> "Metis quote request failed: ",
     get_ultra_quote |-> "Ultra quote request failed: ",
     get_health_status |-> "Health check failed: ",
     get_api_info |-> "API info request failed: "]

\* the operation of task t has returned on a response with a non-success
\* status
ReturnedNonSuccess(t) ==
    /\ opcall[t].pc = "done"
    /\ opcall[t].resps[1].transport_ok
    /\ ~IsSuccess(opcall[t].resps[1].status)

\* C11: whenever one of the eight endpoint operations returns on a
\* non-success status, the response went through the Error Classifier: the
\* operation wrote the classifier's log lines and it fails with the
\* classifier's diagnostic (or with the classifier's own failure).
C11_AllOperationsClassify ==
    \A t \in Tasks :
        ReturnedNonSuccess(t) =>
            LET response == opcall[t].resps[1]
                classified == handle_error_response(response)
            IN  /\ opcall[t].log = handle_error_response_log(response)
                /\ opcall[t].result =
                      Some(IF classified.ok
                           THEN Err(AnyhowMsg(FailurePrefix[opcall[t].name]
                                                  \o classified.val))
                           ELSE classified)

\* the operations whose non-success branch calls handle_error_response
ClassifyingOperations ==
    {"get_quote", "get_price", "get_metis_quote", "get_ultra_quote",
     "get_health_status", "get_api_info"}

\* the category of a status code: label and trailing hint of its message
Category(status) ==
    CASE status = 400 -> <<"Bad Request (400)",
                           ". Check your input parameters.">>
      [] status = 401 -> <<"Unauthorized (401)",
                           ". Check your API key and permissions.">>
      [] status = 403 -> <<"Forbidden (403)",
                           ". API access denied or rate limited.">>
      [] status = 404 -> <<"Not Found (404)",
                           ". Endpoint or resource not found.">>
      [] status = 429 -> <<"Rate Limited (429)", "">>
      [] status \in {500, 502, 503} -> <<"upstream-failure", "">>
      [] OTHER -> <<"HTTP", "">>

UpstreamMessage(status, body) ==
    CASE status = 500 -> "Internal Server Error (500): " \o body
                            \o ". Jupiter API server error."
      [] status = 502 -> "Bad Gateway (502): " \o body
                            \o ". Upstream server error."
      [] status = 503 -> "Service Unavailable (503): " \o body
                            \o ". Jupiter API temporarily unavailable."

\* the classified message of a response whose body was read, by category
ClassifiedMessage(response) ==
    LET status == response.status
        body == response.text
        cat == Category(status)
    IN  CASE cat[1] = "upstream-failure" -> UpstreamMessage(status, body)
          [] cat[1] = "HTTP" ->
                "HTTP " \o StatusDisplay(status) \o ": " \o body
          [] cat[1] = "Rate Limited (429)" ->
                cat[1] \o ": " \o body \o ". Retry after "
                    \o retry_after_text(response) \o " seconds."
          [] OTHER -> cat[1] \o ": " \o body \o cat[2]

RateLimitedMessage(body, value) ==
    "Rate Limited (429): " \o body \o ". Retry after " \o value
        \o " seconds."

\* a classifying operation returned on a 429 whose body was read
Classified429(t) ==
    /\ ReturnedNonSuccess(t)
    /\ opcall[t].name \in ClassifyingOperations
    /\ opcall[t].resps[1].status = 429
    /\ opcall[t].resps[1].body_ok

QuoteOperations == {"get_quote", "get_metis_quote", "get_ultra_quote"}

\* the operation of task t has returned on a success status whose payload
\* decoded against the operation's schema
ReturnedDecoded(t) ==
    /\ opcall[t].pc = "done"
    /\ opcall[t].resps[1].transport_ok
    /\ IsSuccess(opcall[t].resps[1].status)
    /\ opcall[t].resps[1].body_ok
    /\ opcall[t].resps[1].json.decodes

\* one of the three numeric strings of a quote payload does not read as a
\* number of its type
MalformedNumber(payload) ==
    \/ ~ParseU64(payload.in_amount).ok
    \/ ~ParseU64(payload.out_amount).ok
    \/ ~ParseF64(payload.price_impact_pct).ok

\* the failure that reports a numeric string that did not parse
MalformedAmount(returned) ==
    /\ ~returned.ok
    /\ returned.err.type \in {"ParseIntError", "ParseFloatError"}

\* C14: a quote operation (get_quote, get_metis_quote, get_ultra_quote)
\* whose response carries an in-amount, out-amount or price-impact string
\* that is not a number of the expected form fails with the parse error;
\* it never returns a quote.
C14_MalformedAmountRejected ==
    \A t \in Tasks :
        (/\ ReturnedDecoded(t)
         /\ opcall[t].name \in QuoteOperations
         /\ MalformedNumber(opcall[t].resps[1].json.v)) =>
            MalformedAmount(opcall[t].result.val)

\* C15: every quote that get_quote returns successfully has a non-empty
\* route plan.
C15_RoutePlanNonEmpty ==
    \A t \in Tasks :
        (/\ opcall[t].pc = "done"
         /\ opcall[t].name = "get_quote"
         /\ opcall[t].result.val.ok) =>
            Len(opcall[t].result.val.val.route_plan) > 0

RECURSIVE SumPercent(_)
SumPercent(route_plan) ==
    IF Len(route_plan) = 0 THEN 0
    ELSE route_plan[1].percent + SumPercent(Tail(route_plan))

\* C16: the hop percentages of every quote that a quote operation returns
\* successfully sum to 100, and a response whose hop percentages do not
\* sum to 100 is rejected.
C16_PercentagesSumTo100 ==
    \A t \in Tasks :
        (/\ opcall[t].pc = "done"
         /\ opcall[t].name \in QuoteOperations) =>
            /\ opcall[t].result.val.ok =>
                  SumPercent(opcall[t].result.val.val.route_plan) = 100
            /\ (/\ ReturnedDecoded(t)
                /\ SumPercent(opcall[t].resps[1].json.v.route_plan) # 100) =>
                  ~opcall[t].result.val.ok

\* the response makes the operation `name` fail: the transport call
\* failed, the status is not a success, the body could not be read, the
\* payload does not decode, or a numeric string of a quote does not parse
MustFail(name, response) ==
    \/ ~response.transport_ok
    \/ ~IsSuccess(response.status)
    \/ ~response.body_ok
    \/ ~response.json.decodes
    \/ /\ name \in QuoteOperations
       /\ MalformedNumber(response.json.v)

\* C19: every invocation that has returned ended in exactly one of a
\* success value or a failure, and it ended in a failure whenever the
\* transport call failed, the status was not a success, the error body could
\* not be read, the payload did not decode, or a numeric string did not
\* parse.
C19_NoErrorSwallowed ==
    \A t \in Tasks :
        opcall[t].pc = "done" =>
            /\ opcall[t].result.some
            /\ IF opcall[t].result.val.ok
               THEN DOMAIN opcall[t].result.val = {"ok", "val"}
               ELSE DOMAIN opcall[t].result.val = {"ok", "err"}
            /\ MustFail(opcall[t].name, opcall[t].resps[1]) =>
                  ~opcall[t].result.val.ok

\* C19 without the two operations that move the numeric strings unparsed
C19_ExceptUnparsedQuotes ==
    \A t \in Tasks :
        (/\ opcall[t].pc = "done"
         /\ opcall[t].name \notin {"get_metis_quote", "get_ultra_quote"}) =>
            /\ opcall[t].result.some
            /\ MustFail(opcall[t].name, opcall[t].resps[1]) =>
                  ~opcall[t].result.val.ok

----------------------------------------------------------------------------
(* Requests per invocation (checked under SpecAll) *)

\* C17: an invocation of an endpoint operation has issued exactly one
\* request, whatever the response was (429 and 5xx included), and it returns
\* on the first response; an execution of execute_swap has issued one GET
\* {base}/quote and after it at most one POST {base}/swap, the POST only
\* once the response of the GET has arrived and never a second GET.
C17_OneRequestPerInvocation ==
    \A t \in Tasks :
        /\ opcall[t].pc \in {"await", "done"} =>
              /\ opcall[t].reqs =
                    <<endpoint_request(client, opcall[t].name, opcall[t].arg)>>
              /\ Len(opcall[t].resps) = IF opcall[t].pc = "done" THEN 1 ELSE 0
        /\ pc[t] # "idle" =>
              /\ Len(reqs[t]) \in {1, 2}
              /\ IsQuoteGet(reqs[t][1])
              /\ Len(reqs[t]) = 2 =>
                    /\ IsSwapPost(reqs[t][2])
                    /\ Len(resps[t]) >= 1
              /\ Len(resps[t]) <= Len(reqs[t])

\* an endpoint operation answered 429 or 503 has returned after its one
\* request
C17_Witness ==
    \E t \in Tasks :
        /\ opcall[t].pc = "done"
        /\ opcall[t].resps[1].transport_ok
        /\ opcall[t].resps[1].status \in {429, 503}
        /\ Len(opcall[t].reqs) = 1
        /\ ~opcall[t].result.val.ok

\* a saga has ended after a build request that failed with 429 or a 5xx
C17_SagaNotRetried ==
    \E t \in Tasks :
        /\ pc[t] = "done"
        /\ Len(reqs[t]) = 2
        /\ Len(resps[t]) = 2
        /\ resps[t][2].transport_ok
        /\ resps[t][2].status \in {429, 500, 502, 503}

----------------------------------------------------------------------------
(* The quote request of the saga (checked under Spec) *)

\* C20: the quote request that execute_swap sends for an intent carries the
\* intent's input mint, output mint and amount, swap mode "ExactIn", the
\* intent's allow list as dexes and its deny list as exclude_dexes (absent
\* stays absent), no platform fee and max_accounts 64.
C20_QuoteRequestFromIntent ==
    \A t \in Tasks :
        pc[t] # "idle" =>
            LET sent == reqs[t][1].payload
                swap_request == intent[t].val
            IN  /\ sent.input_mint = swap_request.input_mint
                /\ sent.output_mint = swap_request.output_mint
                /\ sent.amount = swap_request.amount
                /\ sent.swap_mode = Some("ExactIn")
                /\ sent.dexes = swap_request.allowed_dexes
                /\ sent.exclude_dexes = swap_request.excluded_dexes
                /\ sent.platform_fee_bps = None
                /\ sent.max_accounts = Some(64)

\* a quote request was sent for an intent that has an allow list, and one
\* for an intent that has a deny list
C20_Witness ==
    \E t \in Tasks :
        /\ pc[t] # "idle"
        /\ \/ /\ intent[t].val.allowed_dexes = Some(<<"Orca", "Raydium">>)
              /\ reqs[t][1].payload.dexes = Some(<<"Orca", "Raydium">>)
              /\ reqs[t][1].payload.exclude_dexes = None
           \/ /\ intent[t].val.excluded_dexes = Some(<<"Phoenix">>)
              /\ reqs[t][1].payload.exclude_dexes = Some(<<"Phoenix">>)

----------------------------------------------------------------------------
(* Concurrent use of one handle (checked under SpecConc) *)

\* the handle as its constructor returned it
ConstructedClient ==
    IF ctor.fn = "new_public" THEN new_public(TRUE).client
    ELSE new_pro(ctor.api_key, TRUE).client

\* what the saga of task t returns, from its own intent and responses
OwnSagaResult(t) ==
    LET qr == get_quote(resps[t][1])
    IN  IF ~qr.ok THEN Err(qr.err)
        ELSE execute_swap_swapped(qr.val, get_swap_transaction(resps[t][2]))

\* C18: under every interleaving of sagas and endpoint operations of
\* several tasks on one handle, the handle stays as it was constructed, and
\* the requests and the result of each task are those of its own arguments
\* and its own responses: the build request of a saga embeds the quote of
\* that saga's own get-quote response, never the quote of another saga.
C18_SharedHandleIsolation ==
    /\ client = ConstructedClient
    /\ \A t \in Tasks :
        /\ pc[t] # "idle" =>
              reqs[t][1] = HttpRequest(client, "GET", "/quote",
                                       quote_request(intent[t].val))
        /\ Len(reqs[t]) = 2 =>
              reqs[t][2] =
                  HttpRequest(client, "POST", "/swap",
                      swap_request_jupiter(intent[t].val,
                                           get_quote(resps[t][1]).val))
        /\ pc[t] = "get_swap_transaction" =>
              quote[t] = Some(get_quote(resps[t][1]).val)
        /\ pc[t] = "done" => result[t] = Some(OwnSagaResult(t))
        /\ opcall[t].pc \in {"await", "done"} =>
              opcall[t].reqs =
                  <<endpoint_request(client, opcall[t].name, opcall[t].arg)>>
        /\ opcall[t].pc = "done" =>
              opcall[t].result =
                  Some(endpoint_result(opcall[t].name, opcall[t].resps[1]))

\* two sagas are in flight at once, each between its quote and its build
\* response, with different quotes, and each build request embeds the out
\* amount of its own quote
C18_Witness ==
    \E t, u \in Tasks :
        /\ pc[t] = "get_swap_transaction"
        /\ pc[u] = "get_swap_transaction"
        /\ resps[t][1].json.v.out_amount = <<"9", "9", "5">>
        /\ resps[u][1].json.v.out_amount = <<"7">>
        /\ reqs[t][2].payload.quote_response.out_amount = <<"9", "9", "5">>
        /\ reqs[u][2].payload.quote_response.out_amount = <<"7">>

\* a saga and an endpoint operation of two tasks are in flight at once
C18_SagaAndOperationInterleave ==
    \E t, u \in Tasks :
        /\ pc[t] = "get_swap_transaction"
        /\ opcall[u].pc = "await"

----------------------------------------------------------------------------
(* The build request, the slippage field and the SwapResponse of the saga
   (checked under Spec) *)

\* C21: the build request of every execution carries the intent's
\* user_public_key, dynamic compute-unit limit on, the intent's priority fee
\* as prioritization fee, legacy transaction off, shared accounts on,
\* versioned transaction on, and neither a fee account nor a tracking
\* account, whatever the quote and the other fields of the intent are.
C21_FixedExecutionPolicy ==
    \A t \in Tasks :
        Len(reqs[t]) = 2 =>
            LET sent == reqs[t][2].payload
            IN  /\ sent.user_public_key = intent[t].val.user_public_key
                /\ sent.dynamic_compute_unit_limit = Some(TRUE)
                /\ sent.prioritization_fee_lamports =
                      Some(intent[t].val.priority_fee)
                /\ sent.as_legacy_transaction = Some(FALSE)
                /\ sent.use_shared_accounts = Some(TRUE)
                /\ sent.as_versioned_transaction = Some(TRUE)
                /\ sent.fee_account = None
                /\ sent.tracking_account = None

\* a build request was sent for the intent of Signer2, whose priority fee
\* is 0
C21_Witness ==
    \E t \in Tasks :
        /\ Len(reqs[t]) = 2
        /\ intent[t].val.user_public_key = "Signer2"
        /\ intent[t].val.priority_fee = 0
        /\ reqs[t][2].payload.user_public_key = "Signer2"
        /\ reqs[t][2].payload.prioritization_fee_lamports = Some(0)

\* C22: the slippage_bps of the quote request of every execution lies in
\* 0..10000, whatever slippage percentage the intent supplies.
C22_SlippageBpsAtMost10000 ==
    \A t \in Tasks :
        Len(reqs[t]) >= 1 =>
            reqs[t][1].payload.slippage_bps \in 0..10000

\* C23: every SwapResponse that execute_swap returns has actual_profit 0,
\* execution_time 0, an empty bundle_id, success true and an empty
\* error_message; no SwapResponse with success false is returned.
C23_PlaceholderOutcome ==
    \A t \in Tasks :
        (/\ pc[t] = "done"
         /\ result[t].val.ok) =>
            LET out == result[t].val.val
            IN  /\ out.actual_profit = 0
                /\ out.execution_time = 0
                /\ out.bundle_id = ""
                /\ out.success = TRUE
                /\ out.error_message = ""

\* a SwapResponse was returned for a quote whose time_taken is 15
C23_Witness ==
    \E t \in Tasks :
        /\ pc[t] = "done"
        /\ result[t].val.ok
        /\ result[t].val.val.quote.val.time_taken = 15
        /\ result[t].val.val.execution_time = 0
        /\ result[t].val.val.success = TRUE

\* C26: the slippage_bps of the quote request is the product percent * 100
\* truncated toward zero and saturated to the 16-bit range, never wrapped:
\* 0 for a negative or not-a-number percentage, 65535 for a percentage above
\* 655.35, and for every intent the quote request is issued.
C26_SlippageCastSaturates ==
    \A t \in Tasks :
        pc[t] # "idle" =>
            LET slippage == intent[t].val.slippage
                bps == reqs[t][1].payload.slippage_bps
            IN  /\ IsQuoteGet(reqs[t][1])
                /\ bps \in 0..U16Max
                /\ (slippage.nan \/ slippage.milli < 0) => bps = 0
                /\ (~slippage.nan /\ slippage.milli > 655350) => bps = U16Max
                /\ (/\ ~slippage.nan
                    /\ slippage.milli >= 0
                    /\ slippage.milli <= 655350) =>
                      /\ bps * 10 <= slippage.milli
                      /\ slippage.milli < (bps + 2) * 10
                      /\ slippage.milli % 10 # 0 =>
                            bps = slippage.milli \div 10

\* a quote request was issued for 700 % with 65535 bps
C26_Witness ==
    \E t \in Tasks :
        /\ pc[t] # "idle"
        /\ intent[t].val.slippage = Slippage(700000)
        /\ IsQuoteGet(reqs[t][1])
        /\ reqs[t][1].payload.slippage_bps = U16Max

\* quote requests were issued for -1 % and for a not-a-number percentage,
\* with 0 bps
C26_NegativeAndNaNIssued ==
    \E t \in Tasks :
        /\ pc[t] # "idle"
        /\ intent[t].val.slippage \in {Slippage(0 - 1000), SlippageNaN}
        /\ reqs[t][1].payload.slippage_bps = 0

----------------------------------------------------------------------------
(* The command line (checked under SpecMain) *)

\* the configuration could not be loaded, or the client could not be
\* constructed from it
ConfigurationFailed ==
    /\ cli.pc # "none"
    /\ \/ ~cli.load.ok
       \/ /\ cli.load.val.jupiter.enabled
          /\ ~client.constructed

\* C24: when the endpoint operation of a health, info or test-quote
\* subcommand fails, main logs the failure and returns Ok(()); when the
\* configuration fails, main ends with an error and no request was sent;
\* a subcommand whose client was built calls exactly its one endpoint
\* operation, which sends one request, and a subcommand run with the
\* client disabled calls none and returns Ok(()).
C24_CliReportsAndContinues ==
    /\ (cli.pc = "exited" /\ opcall[1].pc = "done"
            /\ ~opcall[1].result.val.ok) =>
          /\ cli.exit = Ok("()")
          /\ cli.report =
                Some([level |-> "error",
                      prefix |-> command_failure_prefix(cli.command),
                      err |-> opcall[1].result.val.err])
    /\ ConfigurationFailed =>
          /\ cli.pc = "exited"
          /\ ~cli.exit.ok
          /\ opcall[1] = NoCall
    /\ (cli.pc # "none" /\ ~ConfigurationFailed) =>
          IF cli.load.val.jupiter.enabled
          THEN /\ opcall[1].pc \in {"await", "done"}
               /\ opcall[1].name = command_operation(cli.command)
               /\ Len(opcall[1].reqs) = 1
               /\ (cli.pc = "exited") = (opcall[1].pc = "done")
               /\ cli.pc = "exited" => cli.exit = Ok("()")
          ELSE /\ opcall[1] = NoCall
               /\ cli.pc = "exited"
               /\ cli.exit = Ok("()")

\* the health subcommand was answered 503 and main has returned Ok(()) after
\* logging the classified failure
C24_Witness ==
    /\ cli.pc = "exited"
    /\ cli.command.name = "Health"
    /\ opcall[1].pc = "done"
    /\ opcall[1].resps[1].transport_ok
    /\ opcall[1].resps[1].status = 503
    /\ cli.exit = Ok("()")
    /\ cli.report.val.level = "error"
    /\ cli.report.val.err.msg =
          "Health check failed: Service Unavailable (503): maintenance. "
              \o "Jupiter API temporarily unavailable."

\* main has ended on a configuration that could not be loaded
C24_ConfigLoadFailed ==
    /\ cli.pc = "exited"
    /\ ~cli.load.ok
    /\ ~cli.exit.ok
    /\ opcall[1] = NoCall

\* a test-quote subcommand has ended without a call: the client is disabled
C24_DisabledNoCall ==
    /\ cli.pc = "exited"
    /\ cli.load.ok
    /\ ~cli.load.val.jupiter.enabled
    /\ cli.command.name = "TestJupiter"
    /\ opcall[1] = NoCall

\* C25: the client main builds has tier Public whatever the configuration
\* holds: its X-API-Type is "public", it has the Authorization header
\* exactly when the configuration has an api_key (with that key as bearer),
\* and it has no integrator-fee and no Yellowstone header and config, also
\* when the configuration's api_type is not Public and its integrator_fee
\* and yellowstone_config are present.
C25_CliClientIsPublic ==
    (cli.pc # "none" /\ client.constructed) =>
        LET config == cli.load.val.jupiter
        IN  /\ client.api_type = "Public"
            /\ <<"X-API-Type", "public">> \in client.headers
            /\ HeaderNames(client.headers) =
                  {"Content-Type", "User-Agent", "X-API-Type"}
                    \cup (IF config.api_key.some
                          THEN {"Authorization"} ELSE {})
            /\ config.api_key.some =>
                  <<"Authorization", "Bearer " \o config.api_key.val>>
                      \in client.headers
            /\ client.api_key = config.api_key
            /\ client.base_url = config.api_url
            /\ client.integrator_fee = None
            /\ client.yellowstone_config = None

\* main has built its client from a configuration of tier Ultra with a key,
\* an integrator fee and a Yellowstone feed
C25_Witness ==
    /\ cli.pc # "none"
    /\ client.constructed
    /\ cli.load.val.jupiter.api_type = "Ultra"
    /\ cli.load.val.jupiter.api_key = Some("key-1")
    /\ cli.load.val.jupiter.integrator_fee.some
    /\ cli.load.val.jupiter.yellowstone_config.some
    /\ client.api_type = "Public"
    /\ HasHeader(client.headers, "Authorization")

====
